---- MODULE Spec2Model ----
(***************************************************************************)
(* Guest/host window-integration subsystem of vm-provisioner:              *)
(*   guest_agent.rs   GuestAgent (window diff engine, process watcher,     *)
(*                    length-prefixed transport)                           *)
(*   window_proxy.rs  WindowProxy (host window registry), ClipboardProxy,  *)
(*                    VMIntegrationHost (TCP listener and frame reader)    *)
(*                                                                         *)
(* Strings are sequences of byte values, u32/i32/u64 are encoded as        *)
(* little-endian byte sequences the way bincode 1.3 (fixint) writes them.  *)
(***************************************************************************)
EXTENDS Integers, Sequences, FiniteSets, TLC

\* ------------------------------------------------------------------------
\* Bounds of the model
\* ------------------------------------------------------------------------
\* frames a guest thread / a raw peer may start on one connection
MaxFrames == 2
\* requests the guest side of the clipboard connection may write
MaxClipMsgs == 2
\* messages the peer of the WindowProxy connection may write
MaxProxyMsgs == 3
\* matching processes pgrep may list on one tick
MaxPids == 2
\* lines of one xwininfo listing in which a window id may be repeated
MaxListed == 2
\* frames the guest agent sends while the host handler is followed
MaxSyncFrames == 3

\* ------------------------------------------------------------------------
\* Strings (byte sequences) used by the program and by the inputs
\* ------------------------------------------------------------------------
S_LibreWolf == <<76, 105, 98, 114, 101, 87, 111, 108, 102>>
S_Firefox == <<70, 105, 114, 101, 102, 111, 120>>
S_Chromium == <<67, 104, 114, 111, 109, 105, 117, 109>>
S_LibreOffice == <<76, 105, 98, 114, 101, 79, 102, 102, 105, 99, 101>>
S_VSCode == <<86, 105, 115, 117, 97, 108, 32, 83, 116, 117, 100, 105, 111, 32, 67, 111, 100, 101>>
S_librewolf == <<108, 105, 98, 114, 101, 119, 111, 108, 102>>
S_firefox == <<102, 105, 114, 101, 102, 111, 120>>
S_chromium == <<99, 104, 114, 111, 109, 105, 117, 109>>
S_libreoffice == <<108, 105, 98, 114, 101, 111, 102, 102, 105, 99, 101>>
S_code == <<99, 111, 100, 101>>
S_unknown == <<117, 110, 107, 110, 111, 119, 110>>
S_detected == <<100, 101, 116, 101, 99, 116, 101, 100>>
S_hello == <<104, 101, 108, 108, 111>>
S_old == <<111, 108, 100>>
S_user == <<117, 115, 101, 114>>

\* str.contains(pat)
Contains(s, pat) ==
  \E i \in 0..(Len(s) - Len(pat)) : SubSeq(s, i + 1, i + Len(pat)) = pat

get_app_name_from_title(title) ==
  IF Contains(title, S_LibreWolf) THEN S_librewolf
  ELSE IF Contains(title, S_Firefox) THEN S_firefox
  ELSE IF Contains(title, S_Chromium) THEN S_chromium
  ELSE IF Contains(title, S_LibreOffice) THEN S_libreoffice
  ELSE IF Contains(title, S_VSCode) THEN S_code
  ELSE S_unknown

\* ------------------------------------------------------------------------
\* Input domains
\* ------------------------------------------------------------------------
WindowIds == {1, 2}
Titles == {S_Firefox, S_Chromium}
\* (width, height, x, y)
BaseGeometry == <<800, 600, 0, 0>>
\* geometries that differ from the base one in exactly one field
SizeVariants == { <<1024, 600, 0, 0>>, <<800, 768, 0, 0>> }
PosVariants == { <<800, 600, 100, 0>>, <<800, 600, 0, -50>> }

\* struct WindowInfo as produced by parse_xwininfo_line
WindowInfo(id, title, g) ==
  [ id |-> id, title |-> title, width |-> g[1], height |-> g[2],
    x |-> g[3], y |-> g[4],
    app_name |-> get_app_name_from_title(title), pid |-> 0 ]

\* the windows the display server may expose: window 1 is retitled and
\* resized, window 2 is retitled and moved
WindowInfos ==
  { WindowInfo(id, t, BaseGeometry) : id \in WindowIds, t \in Titles }
    \cup { WindowInfo(1, S_Firefox, g) : g \in SizeVariants }
    \cup { WindowInfo(2, S_Firefox, g) : g \in PosVariants }

\* ------------------------------------------------------------------------
\* enum WindowMessage
\* ------------------------------------------------------------------------
WindowCreated(w) ==
  [ type |-> "WindowCreated", id |-> w.id, title |-> w.title, width |-> w.width,
    height |-> w.height, x |-> w.x, y |-> w.y, app_name |-> w.app_name ]
WindowDestroyed(id) == [ type |-> "WindowDestroyed", id |-> id ]
WindowMoved(id, x, y) == [ type |-> "WindowMoved", id |-> id, x |-> x, y |-> y ]
WindowResized(id, w, h) == [ type |-> "WindowResized", id |-> id, width |-> w, height |-> h ]
WindowTitleChanged(id, t) == [ type |-> "WindowTitleChanged", id |-> id, title |-> t ]
WindowFocusChanged(id, f) == [ type |-> "WindowFocusChanged", id |-> id, focused |-> f ]
ApplicationStarted(name, pid) == [ type |-> "ApplicationStarted", app_name |-> name, pid |-> pid ]
ApplicationStopped(name, pid) == [ type |-> "ApplicationStopped", app_name |-> name, pid |-> pid ]

\* ------------------------------------------------------------------------
\* Wire codec: bincode 1.3 (fixed-width little-endian integers, u64 length
\* before a string, u32 variant index before an enum variant's fields)
\* ------------------------------------------------------------------------
\* the k low bytes of n, least significant first (two's complement for n < 0)
RECURSIVE LE(_, _)
LE(n, k) == IF k = 0 THEN <<>> ELSE <<n % 256>> \o LE(n \div 256, k - 1)

\* the variants of enum WindowMessage in declaration order, with their fields
WindowMessageSchema ==
  << [ type |-> "WindowCreated",
       fields |-> << <<"id", "u32">>, <<"title", "str">>, <<"width", "u32">>,
                     <<"height", "u32">>, <<"x", "i32">>, <<"y", "i32">>,
                     <<"app_name", "str">> >> ],
     [ type |-> "WindowDestroyed", fields |-> << <<"id", "u32">> >> ],
     [ type |-> "WindowMoved",
       fields |-> << <<"id", "u32">>, <<"x", "i32">>, <<"y", "i32">> >> ],
     [ type |-> "WindowResized",
       fields |-> << <<"id", "u32">>, <<"width", "u32">>, <<"height", "u32">> >> ],
     [ type |-> "WindowTitleChanged", fields |-> << <<"id", "u32">>, <<"title", "str">> >> ],
     [ type |-> "WindowFocusChanged", fields |-> << <<"id", "u32">>, <<"focused", "bool">> >> ],
     [ type |-> "ApplicationStarted", fields |-> << <<"app_name", "str">>, <<"pid", "u32">> >> ],
     [ type |-> "ApplicationStopped", fields |-> << <<"app_name", "str">>, <<"pid", "u32">> >> ] >>

\* the variants of enum ClipboardMessage
ClipboardMessageSchema ==
  << [ type |-> "SetClipboard", fields |-> << <<"text", "str">> >> ],
     [ type |-> "GetClipboard", fields |-> << >> ],
     [ type |-> "ClipboardContent", fields |-> << <<"text", "str">> >> ] >>

\* an encoder that writes the length of a string as u32
EncodeValue_ShortLen(kind, v) ==
  CASE kind = "u32" -> LE(v, 4)
    [] kind = "i32" -> LE(v, 4)
    [] kind = "bool" -> << IF v THEN 1 ELSE 0 >>
    [] kind = "str" -> LE(Len(v), 4) \o v

EncodeValue(kind, v) ==
  CASE kind = "u32" -> LE(v, 4)
    [] kind = "i32" -> LE(v, 4)
    [] kind = "bool" -> << IF v THEN 1 ELSE 0 >>
    [] kind = "str" -> LE(Len(v), 8) \o v

RECURSIVE EncodeFields(_, _, _)
EncodeFields(msg, fields, i) ==
  IF i > Len(fields) THEN <<>>
  ELSE EncodeValue(fields[i][2], msg[fields[i][1]]) \o EncodeFields(msg, fields, i + 1)

\* bincode::serialize(msg) for an enum with the given schema
serialize(schema, msg) ==
  LET tag == CHOOSE t \in DOMAIN schema : schema[t].type = msg.type
  IN  LE(tag - 1, 4) \o EncodeFields(msg, schema[tag].fields, 1)

\* value of four little-endian bytes as u32; values above i32::MAX, which the
\* model checker's integers cannot hold, read as i32::MAX
U32Value(b) ==
  IF b[4] >= 128 THEN 2147483647
  ELSE b[1] + 256 * b[2] + 65536 * b[3] + 16777216 * b[4]

I32Value(b) ==
  b[1] + 256 * b[2] + 65536 * b[3] + 16777216 * (IF b[4] >= 128 THEN b[4] - 256 ELSE b[4])

DecodeError == [ ok |-> FALSE ]

\* s[i] is a UTF-8 continuation byte within lo..hi
Cont(s, i, lo, hi) == i <= Len(s) /\ s[i] >= lo /\ s[i] <= hi

\* std::str::from_utf8 accepts the bytes of s from position i on
RECURSIVE Utf8Valid(_, _)
Utf8Valid(s, i) ==
  IF i > Len(s) THEN TRUE
  ELSE LET b == s[i]
       IN  IF b < 128 THEN Utf8Valid(s, i + 1)
           ELSE IF b >= 194 /\ b <= 223
                THEN Cont(s, i + 1, 128, 191) /\ Utf8Valid(s, i + 2)
           ELSE IF b >= 224 /\ b <= 239
                THEN /\ Cont(s, i + 1, IF b = 224 THEN 160 ELSE 128, IF b = 237 THEN 159 ELSE 191)
                     /\ Cont(s, i + 2, 128, 191)
                     /\ Utf8Valid(s, i + 3)
           ELSE IF b >= 240 /\ b <= 244
                THEN /\ Cont(s, i + 1, IF b = 240 THEN 144 ELSE 128, IF b = 244 THEN 143 ELSE 191)
                     /\ Cont(s, i + 2, 128, 191)
                     /\ Cont(s, i + 3, 128, 191)
                     /\ Utf8Valid(s, i + 4)
           ELSE FALSE

\* read one value of the given kind from bytes b at position pos
DecodeValue(kind, b, pos) ==
  CASE kind = "u32" ->
         IF pos + 3 > Len(b) THEN DecodeError
         ELSE [ ok |-> TRUE, v |-> U32Value(SubSeq(b, pos, pos + 3)), pos |-> pos + 4 ]
    [] kind = "i32" ->
         IF pos + 3 > Len(b) THEN DecodeError
         ELSE [ ok |-> TRUE, v |-> I32Value(SubSeq(b, pos, pos + 3)), pos |-> pos + 4 ]
    [] kind = "bool" ->
         IF pos > Len(b) \/ b[pos] \notin {0, 1} THEN DecodeError
         ELSE [ ok |-> TRUE, v |-> (b[pos] = 1), pos |-> pos + 1 ]
    [] kind = "str" ->
         IF pos + 7 > Len(b) THEN DecodeError
         ELSE LET high == SubSeq(b, pos + 4, pos + 7)
                  len == U32Value(SubSeq(b, pos, pos + 3))
              IN  IF high # <<0, 0, 0, 0>> \/ pos + 7 + len > Len(b) THEN DecodeError
                  ELSE LET text == SubSeq(b, pos + 8, pos + 7 + len)
                       IN  \* String: the bytes must be UTF-8
                           IF ~Utf8Valid(text, 1) THEN DecodeError
                           ELSE [ ok |-> TRUE, v |-> text, pos |-> pos + 8 + len ]

RECURSIVE DecodeFields(_, _, _, _, _)
DecodeFields(b, pos, fields, i, acc) ==
  IF i > Len(fields) THEN [ ok |-> TRUE, msg |-> acc ]
  ELSE LET r == DecodeValue(fields[i][2], b, pos)
       IN  IF ~r.ok THEN DecodeError
           ELSE DecodeFields(b, r.pos, fields, i + 1, acc @@ (fields[i][1] :> r.v))

\* bincode::deserialize::<T>(bytes) for an enum with the given schema; bytes
\* after the value are allowed (bincode::deserialize allows trailing bytes)
deserialize(schema, b) ==
  LET tag == DecodeValue("u32", b, 1)
  IN  IF ~tag.ok \/ tag.v + 1 \notin DOMAIN schema THEN DecodeError
      ELSE DecodeFields(b, tag.pos, schema[tag.v + 1].fields, 1,
                        ("type" :> schema[tag.v + 1].type))

\* the bytes of one send_message call: the length prefix, then the payload
LengthPrefix(data) == LE(Len(data), 4)
Frame(data) == LengthPrefix(data) \o data


VARIABLES
  \* ---- guest agent (guest_agent.rs)
  windows,       \* GuestAgent.windows
  snapshot,      \* current_windows of the last scan_windows tick
  sent,          \* messages written by the last scan_windows tick, in order
  agent,         \* "running" | "exited" | "panicked": the guest agent process
  send_failed,   \* some send_message returned Err
  scanned,       \* how the last scan_windows tick got its window list ("never" before the first)
  \* ---- the guest -> host connection (guest_agent.rs, VMIntegrationHost)
  wire,          \* every byte written to the connection so far, in order
  rpos,          \* number of bytes of wire the host handler has consumed
  conn,          \* "open" | "closed": closed once the writing side is gone
  sending,       \* per guest thread: the send_message call in progress
  nsent,         \* send_message calls that have returned Ok(())
  \* ---- the host-side handler loop of the specification at hand
  \*      (handle_guest_connection, handle_vm_messages or ClipboardProxy::run)
  h_state,       \* where the loop is: "reading", or how it ended
  received,      \* messages the loop decoded and handled, in order
  dropped,       \* reads/frames the loop could not decode
  \* ---- WindowProxy and ClipboardProxy (window_proxy.rs)
  proxy_windows, \* WindowProxy.windows: id -> ProxiedWindow
  vm_pending,    \* vm_connection: chunks the VM wrote that the host has not read
  vm_out,        \* vm_connection: chunks the host wrote to the VM
  host_clipboard,\* ClipboardProxy.host_clipboard (the shared value)
  sys_clipboard, \* the host's clipboard as wl-copy / wl-paste see it
  watcher,       \* monitor_host_clipboard: its position and the wl-paste output it holds
  ext_changed,   \* the host clipboard was changed from outside since the last SetClipboard
  \* ---- one message through the codec (sender's serialize, host's deserialize)
  codec,         \* the message encoded last and what the host decoded from its bytes
  \* ---- GuestAgent::monitor_processes (guest_agent.rs)
  pids,          \* the pids pgrep listed on the last process-watcher tick
  prev_pids,     \* the pids it listed on the tick before
  app_sent,      \* messages written by the last process-watcher tick, in order
  \* ---- the window thread's messages on a connection whose transport is followed
  generated,     \* messages the window thread handed to send_message, in order
  \* ---- the window-listing tool of the last tick
  tool_output,   \* the lines the tool printed (each a byte string)
  \* ---- the host's threads and their mutexes
  lock_owner,    \* per mutex: the thread that holds it, or "none"
  pc             \* per thread: the statement it is at

diffVars == << windows, snapshot, sent, agent, send_failed, scanned >>

wireVars == << wire, rpos, conn, sending, nsent, h_state, received, dropped >>

proxyVars == << proxy_windows, vm_pending, vm_out >>

clipVars == << host_clipboard, sys_clipboard, watcher, ext_changed >>

codecVars == << codec >>

procVars == << pids, prev_pids, app_sent >>

orderVars == << generated >>

parseVars == << tool_output >>

lockVars == << lock_owner, pc >>

vars == << diffVars, wireVars, proxyVars, clipVars, codecVars, procVars,
          orderVars, parseVars, lockVars >>

\* ------------------------------------------------------------------------
\* GuestAgent::scan_windows (diff engine)
\* ------------------------------------------------------------------------
\* One send_message call as the calling thread sees it: Ok while the socket
\* still takes the write, Err from the first refused write on (the `?` of the
\* caller then returns).  budget < 0: the socket stays writable.
SendStep(st, msg) ==
  IF ~st.ok THEN st
  ELSE IF st.budget = 0 THEN [st EXCEPT !.ok = FALSE]
  ELSE [st EXCEPT !.out = Append(@, msg), !.budget = IF @ < 0 THEN @ ELSE @ - 1]

\* HashMap::new
EmptyMap == [i \in {} |-> 0]

\* HashMap::insert / HashMap::remove
Insert(reg, w) == [i \in (DOMAIN reg) \cup {w.id} |-> IF i = w.id THEN w ELSE reg[i]]
Remove(reg, id) == [i \in (DOMAIN reg) \ {id} |-> reg[i]]

\* a "Detect new windows" loop that tests each window against the registry as
\* it was when the tick began: an id announced earlier in the loop is
\* announced again
RECURSIVE DetectNew_TickStart(_, _, _)
DetectNew_TickStart(st, cur, i) ==
  IF i > Len(cur) \/ ~st.ok THEN st
  ELSE IF /\ cur[i].id \in DOMAIN st.reg
          /\ \A j \in DOMAIN st.out : st.out[j].id # cur[i].id
       THEN DetectNew_TickStart(st, cur, i + 1)
       ELSE LET s1 == SendStep(st, WindowCreated(cur[i]))
            IN  IF s1.ok THEN DetectNew_TickStart([s1 EXCEPT !.reg = Insert(@, cur[i])], cur, i + 1)
                ELSE s1

\* a "Detect new windows" loop that inserts the window before it sends
\* WindowCreated
RECURSIVE DetectNew_InsertFirst(_, _, _)
DetectNew_InsertFirst(st, cur, i) ==
  IF i > Len(cur) \/ ~st.ok THEN st
  ELSE IF cur[i].id \in DOMAIN st.reg THEN DetectNew_InsertFirst(st, cur, i + 1)
  ELSE LET s1 == SendStep([st EXCEPT !.reg = Insert(@, cur[i])], WindowCreated(cur[i]))
       IN  IF s1.ok THEN DetectNew_InsertFirst(s1, cur, i + 1) ELSE s1

\* "Detect new windows"
RECURSIVE DetectNew(_, _, _)
DetectNew(st, cur, i) ==
  IF i > Len(cur) \/ ~st.ok THEN st
  ELSE IF cur[i].id \in DOMAIN st.reg THEN DetectNew(st, cur, i + 1)
  ELSE LET s1 == SendStep(st, WindowCreated(cur[i]))
       IN  IF s1.ok THEN DetectNew([s1 EXCEPT !.reg = Insert(@, cur[i])], cur, i + 1)
           ELSE s1

\* "Detect closed windows": closed is closed_windows in HashMap key order
RECURSIVE DetectClosed(_, _, _)
DetectClosed(st, closed, i) ==
  IF i > Len(closed) \/ ~st.ok THEN st
  ELSE LET s1 == SendStep(st, WindowDestroyed(closed[i]))
       IN  IF s1.ok THEN DetectClosed([s1 EXCEPT !.reg = Remove(@, closed[i])], closed, i + 1)
           ELSE s1

\* change notifications that report a resize as a move as well
ChangeEvents_Noisy(st, old, w) ==
  LET title_changed == old.title # w.title
      size_changed == old.width # w.width \/ old.height # w.height
      pos_changed == size_changed \/ old.x # w.x \/ old.y # w.y
      s1 == IF title_changed THEN SendStep(st, WindowTitleChanged(w.id, w.title)) ELSE st
      s2 == IF size_changed THEN SendStep(s1, WindowResized(w.id, w.width, w.height)) ELSE s1
      s3 == IF pos_changed THEN SendStep(s2, WindowMoved(w.id, w.x, w.y)) ELSE s2
      needs_update == title_changed \/ size_changed \/ pos_changed
  IN  IF s3.ok /\ needs_update THEN [s3 EXCEPT !.reg = Insert(@, w)] ELSE s3

\* the three change notifications of one current_window, each followed by `?`
ChangeEvents(st, old, w) ==
  LET title_changed == old.title # w.title
      size_changed == old.width # w.width \/ old.height # w.height
      pos_changed == old.x # w.x \/ old.y # w.y
      s1 == IF title_changed THEN SendStep(st, WindowTitleChanged(w.id, w.title)) ELSE st
      s2 == IF size_changed THEN SendStep(s1, WindowResized(w.id, w.width, w.height)) ELSE s1
      s3 == IF pos_changed THEN SendStep(s2, WindowMoved(w.id, w.x, w.y)) ELSE s2
      needs_update == title_changed \/ size_changed \/ pos_changed
  IN  IF s3.ok /\ needs_update THEN [s3 EXCEPT !.reg = Insert(@, w)] ELSE s3

\* "Detect window changes (title, size, position)"
RECURSIVE DetectChanges(_, _, _)
DetectChanges(st, cur, i) ==
  IF i > Len(cur) \/ ~st.ok THEN st
  ELSE IF cur[i].id \in DOMAIN st.reg
       THEN DetectChanges(ChangeEvents(st, st.reg[cur[i].id], cur[i]), cur, i + 1)
       ELSE DetectChanges(st, cur, i + 1)

\* a tick that looks for closed windows first and for new windows second
DiffWindows_ClosedFirst(reg, cur, key_order, budget) ==
  LET s0 == [reg |-> reg, out |-> <<>>, ok |-> TRUE, budget |-> budget]
      current_ids == { cur[i].id : i \in DOMAIN cur }
      IsClosed(id) == id \in DOMAIN s0.reg /\ id \notin current_ids
      closed_windows == SelectSeq(key_order, IsClosed)
      s1 == DetectClosed(s0, closed_windows, 1)
      s2 == DetectNew(s1, cur, 1)
  IN  DetectChanges(s2, cur, 1)

\* body of scan_windows after parse_xwininfo_output: registry reg, snapshot
\* cur, key_order the iteration order of self.windows.keys()
DiffWindows(reg, cur, key_order, budget) ==
  LET s0 == [reg |-> reg, out |-> <<>>, ok |-> TRUE, budget |-> budget]
      s1 == DetectNew(s0, cur, 1)
      current_ids == { cur[i].id : i \in DOMAIN cur }
      IsClosed(id) == id \in DOMAIN s1.reg /\ id \notin current_ids
      closed_windows == SelectSeq(key_order, IsClosed)
      s2 == DetectClosed(s1, closed_windows, 1)
  IN  DetectChanges(s2, cur, 1)

\* the registry a window list stands for (ids are unique within a list)
SnapshotOf(cur) ==
  [ id \in { cur[i].id : i \in DOMAIN cur } |->
      cur[CHOOSE i \in DOMAIN cur : cur[i].id = id] ]

\* the window lists a listing tool may print: each window of the display
\* server once, in any order
Listings ==
  { s \in UNION { [1..n -> WindowInfos] : n \in 0..Cardinality(WindowIds) } :
      \A i, j \in DOMAIN s : i # j => s[i].id # s[j].id }

\* the orders in which self.windows.keys() may yield the keys of reg
KeyOrders(reg) ==
  { s \in [1..Cardinality(DOMAIN reg) -> DOMAIN reg] : \A i, j \in DOMAIN s : i # j => s[i] # s[j] }

\* One iteration of the loop of GuestAgent::run, primary path: xwininfo ran
\* and succeeded.  The host may stop reading at any point of the tick: the
\* first k sends succeed and the next one, if any, returns Err, which the `?`
\* in scan_windows and in run propagates to main: the process exits.
ScanPrimaryOf(listings) ==
  /\ agent = "running"
  /\ \E cur \in listings, key_order \in KeyOrders(windows) :
       LET full == DiffWindows(windows, cur, key_order, -1)
       IN  \E k \in 0..Len(full.out) :
             LET r == IF k = Len(full.out) THEN full
                      ELSE DiffWindows(windows, cur, key_order, k)
             IN  /\ windows' = r.reg
                 /\ sent' = r.out
                 /\ snapshot' = cur
                 /\ agent' = IF r.ok THEN "running" ELSE "exited"
                 /\ send_failed' = (send_failed \/ ~r.ok)
  /\ scanned' = "xwininfo"
  /\ UNCHANGED << wireVars, proxyVars, clipVars >>
  /\ UNCHANGED << codecVars, procVars >>
  /\ UNCHANGED << orderVars, lockVars >>

ScanPrimary == ScanPrimaryOf(Listings) /\ UNCHANGED parseVars

\* the same tick on a display with a third window, taken from any registry
\* earlier ticks can have left
WindowInfos3 == WindowInfos \cup { WindowInfo(3, S_Chromium, BaseGeometry) }

Listings3 ==
  { s \in UNION { [1..n -> WindowInfos3] : n \in 0..3 } :
      \A i, j \in DOMAIN s : i # j => s[i].id # s[j].id }

Registries3 == { SnapshotOf(s) : s \in Listings3 }

FirstTick ==
  /\ scanned = "never"
  /\ ScanPrimaryOf(Listings3)
  /\ UNCHANGED parseVars

\* window lists in which a window id may occur on more than one line (what
\* parse_xwininfo_output returns for output that repeats an id): window 1
\* as it is, retitled and resized, and window 2
DupWindowInfos ==
  { WindowInfo(1, S_Firefox, BaseGeometry), WindowInfo(1, S_Chromium, BaseGeometry),
    WindowInfo(1, S_Firefox, <<1024, 600, 0, 0>>), WindowInfo(2, S_Firefox, BaseGeometry) }

ListingsDup == UNION { [1..n -> DupWindowInfos] : n \in 0..MaxListed }

ScanDup == ScanPrimaryOf(ListingsDup) /\ UNCHANGED parseVars

\* xwininfo failed and scan_windows_wmctrl ran and parsed the output of
\* wmctrl into _current_windows, which it does not use
ScanFallback ==
  /\ agent = "running"
  /\ \E cur \in Listings : snapshot' = cur
  /\ scanned' = "wmctrl"
  /\ sent' = <<>>
  /\ UNCHANGED << windows, agent, send_failed, wireVars, proxyVars, clipVars >>
  /\ UNCHANGED << codecVars, procVars >>
  /\ UNCHANGED << orderVars, parseVars, lockVars >>

\* xwininfo failed and wmctrl exited with a failure status (Ok(())), or could
\* not be run at all (output()? returns Err and the process exits)
ScanNoTool ==
  /\ agent = "running"
  /\ \E missing \in BOOLEAN : agent' = IF missing THEN "exited" ELSE "running"
  /\ scanned' = "none"
  /\ sent' = <<>>
  /\ UNCHANGED << windows, snapshot, send_failed, wireVars, proxyVars, clipVars >>
  /\ UNCHANGED << codecVars, procVars >>
  /\ UNCHANGED << orderVars, parseVars, lockVars >>

\* ------------------------------------------------------------------------
\* Parsing the output of the listing tools
\* ------------------------------------------------------------------------
\* listing output of at most this many lines
MaxLines == 2

\* char::is_whitespace on the one-byte characters
IsSpace(b) == b \in {9, 10, 11, 12, 13, 32}

\* char::to_digit(radix) for radix 10 and 16, -1 for None
ToDigit(b, radix) ==
  IF b \in 48..57 THEN b - 48
  ELSE IF radix = 16 /\ b \in 97..102 THEN b - 87
  ELSE IF radix = 16 /\ b \in 65..70 THEN b - 55
  ELSE -1

ParseErr == [ ok |-> FALSE, v |-> 0 ]

\* the digit loop of from_str_radix: Err on a character that is no digit
\* and on overflow (the limit is i32::MAX; inputs between i32::MAX and
\* u32::MAX, which the unsigned parse accepts, are not among the lines)
RECURSIVE Accumulate(_, _, _, _)
Accumulate(digits, radix, i, acc) ==
  IF i > Len(digits) THEN [ ok |-> TRUE, v |-> acc ]
  ELSE LET d == ToDigit(digits[i], radix)
       IN  IF d < 0 THEN ParseErr
           ELSE IF acc > (2147483647 - d) \div radix THEN ParseErr
           ELSE Accumulate(digits, radix, i + 1, acc * radix + d)

\* u32::from_str_radix(src, radix), also str::parse::<u32> with radix 10:
\* Err on the empty string and on a lone sign, one leading '+' accepted
ParseU32(src, radix) ==
  IF src = << >> THEN ParseErr
  ELSE LET digits == IF src[1] = 43 THEN Tail(src) ELSE src
       IN  IF digits = << >> THEN ParseErr ELSE Accumulate(digits, radix, 1, 0)

\* str::parse::<i32>: one leading '+' or '-' accepted
ParseI32(src) ==
  IF src = << >> THEN ParseErr
  ELSE LET signed == src[1] \in {43, 45}
           digits == IF signed THEN Tail(src) ELSE src
           r == IF digits = << >> THEN ParseErr ELSE Accumulate(digits, 10, 1, 0)
       IN  IF r.ok /\ src[1] = 45 THEN [ ok |-> TRUE, v |-> 0 - r.v ] ELSE r

\* str::find(pat) on s[from..]: the index of the first occurrence of pat at
\* or after from, 0 for None
Find(s, pat, from) ==
  LET at == { i \in from..(Len(s) - Len(pat) + 1) : SubSeq(s, i, i + Len(pat) - 1) = pat }
  IN  IF at = {} THEN 0 ELSE CHOOSE i \in at : \A j \in at : i <= j

\* str::lines(): the pieces between line feeds, without a final empty piece
RECURSIVE Lines(_, _)
Lines(s, from) ==
  IF from > Len(s) THEN << >>
  ELSE LET feed == Find(s, << 10 >>, from)
           end == IF feed = 0 THEN Len(s) + 1 ELSE feed
       IN  << SubSeq(s, from, end - 1) >> \o Lines(s, end + 1)

\* str::split_whitespace(): the maximal runs of characters that are not
\* whitespace
RECURSIVE SplitWhitespace(_, _)
SplitWhitespace(s, from) ==
  LET starts == { i \in from..Len(s) : ~IsSpace(s[i]) }
      start == CHOOSE i \in starts : \A j \in starts : i <= j
      ends == { i \in start..Len(s) : IsSpace(s[i]) } \cup { Len(s) + 1 }
      end == CHOOSE i \in ends : \A j \in ends : i <= j
  IN  IF starts = {} THEN << >>
      ELSE << SubSeq(s, start, end - 1) >> \o SplitWhitespace(s, end + 1)

\* parts[from..].join(" ")
RECURSIVE Join(_, _)
Join(parts, from) ==
  IF from > Len(parts) THEN << >>
  ELSE IF from = Len(parts) THEN parts[from]
  ELSE parts[from] \o << 32 >> \o Join(parts, from + 1)

\* the index after the maximal run of digits that starts at i
DigitRunEnd(s, i) ==
  IF i > Len(s) THEN i
  ELSE LET ends == { k \in i..Len(s) : s[k] \notin 48..57 } \cup { Len(s) + 1 }
       IN  CHOOSE k \in ends : \A j \in ends : k <= j

\* the match of (\d+)x(\d+)([\+\-]\d+)([\+\-]\d+) that starts at i, as the
\* four captured texts
GeometryAt(s, i) ==
  LET a == DigitRunEnd(s, i)
      b == DigitRunEnd(s, a + 1)
      c == DigitRunEnd(s, b + 1)
      d == DigitRunEnd(s, c + 1)
      IsSign(k) == k <= Len(s) /\ s[k] \in {43, 45}
  IN  IF /\ a > i /\ a <= Len(s) /\ s[a] = 120
         /\ b > a + 1 /\ IsSign(b)
         /\ c > b + 1 /\ IsSign(c)
         /\ d > c + 1
      THEN [ ok |-> TRUE,
             caps |-> << SubSeq(s, i, a - 1), SubSeq(s, a + 1, b - 1),
                         SubSeq(s, b, c - 1), SubSeq(s, c, d - 1) >> ]
      ELSE [ ok |-> FALSE, caps |-> << >> ]

\* Regex::captures: the leftmost match
Captures(s) ==
  LET at == { i \in DOMAIN s : GeometryAt(s, i).ok }
  IN  IF at = {} THEN [ ok |-> FALSE, caps |-> << >> ]
      ELSE GeometryAt(s, CHOOSE i \in at : \A j \in at : i <= j)

\* GuestAgent::extract_geometry: (width, height, x, y) of the first text of
\* the line that looks like a geometry, None when one of its numbers does
\* not fit its type
extract_geometry(line) ==
  LET m == Captures(line)
  IN  IF ~m.ok THEN [ ok |-> FALSE, g |-> << >> ]
      ELSE LET width == ParseU32(m.caps[1], 10)
               height == ParseU32(m.caps[2], 10)
               x == ParseI32(m.caps[3])
               y == ParseI32(m.caps[4])
           IN  IF width.ok /\ height.ok /\ x.ok /\ y.ok
               THEN [ ok |-> TRUE, g |-> << width.v, height.v, x.v, y.v >> ]
               ELSE [ ok |-> FALSE, g |-> << >> ]

\* GuestAgent::parse_xwininfo_line: << >> for None, << WindowInfo >> for
\* Some; the id starts at the first "0x" and ends before the next space,
\* the title stands between the first two double quotes
parse_xwininfo_line(line) ==
  LET id_start == Find(line, << 48, 120 >>, 1)
      id_end == Find(line, << 32 >>, id_start)
      id == ParseU32(SubSeq(line, id_start + 2, id_end - 1), 16)
      title_start == Find(line, << 34 >>, 1)
      title_end == Find(line, << 34 >>, title_start + 1)
      title == SubSeq(line, title_start + 1, title_end - 1)
      geom_match == extract_geometry(line)
  IN  IF id_start = 0 THEN << >>
      ELSE IF id_end = 0 THEN << >>
      ELSE IF ~id.ok THEN << >>
      ELSE IF title_start = 0 THEN << >>
      ELSE IF title_end = 0 THEN << >>
      ELSE IF ~geom_match.ok THEN << >>
      ELSE << WindowInfo(id.v, title, geom_match.g) >>

\* the loop of GuestAgent::parse_xwininfo_output over lines[i..]: a line
\* that contains "children:" or is empty after trim() is passed over
RECURSIVE parse_xwininfo_lines(_, _)
parse_xwininfo_lines(lines, i) ==
  IF i > Len(lines) THEN << >>
  ELSE IF Contains(lines[i], << 99, 104, 105, 108, 100, 114, 101, 110, 58 >>)
          \/ \A k \in DOMAIN lines[i] : IsSpace(lines[i][k])
       THEN parse_xwininfo_lines(lines, i + 1)
  ELSE parse_xwininfo_line(lines[i]) \o parse_xwininfo_lines(lines, i + 1)

parse_xwininfo_output(output) ==
  parse_xwininfo_lines(Lines(output, 1), 1)

\* &parts[0][2..] is a valid slice: the text has two bytes and byte 2 is
\* not inside a character; otherwise the slice expression panics
SliceFrom2(tok) == Len(tok) >= 2 /\ (Len(tok) = 2 \/ tok[3] \notin 128..191)

\* the body of the loop of GuestAgent::parse_wmctrl_output for one line
parse_wmctrl_line(line) ==
  LET parts == SplitWhitespace(line, 1)
      id == ParseU32(SubSeq(parts[1], 3, Len(parts[1])), 16)
      x == ParseI32(parts[3])
      y == ParseI32(parts[4])
      width == ParseU32(parts[5], 10)
      height == ParseU32(parts[6], 10)
      title == Join(parts, 8)
  IN  IF Len(parts) < 7 THEN [ panic |-> FALSE, windows |-> << >> ]
      ELSE IF ~SliceFrom2(parts[1]) THEN [ panic |-> TRUE, windows |-> << >> ]
      ELSE IF ~id.ok THEN [ panic |-> FALSE, windows |-> << >> ]
      ELSE IF ~(x.ok /\ y.ok /\ width.ok /\ height.ok)
           THEN [ panic |-> FALSE, windows |-> << >> ]
      ELSE [ panic |-> FALSE,
             windows |-> << WindowInfo(id.v, title, << width.v, height.v, x.v, y.v >>) >> ]

\* the loop of GuestAgent::parse_wmctrl_output over lines[i..]: a panic in
\* one line unwinds out of the loop
RECURSIVE parse_wmctrl_lines(_, _)
parse_wmctrl_lines(lines, i) ==
  IF i > Len(lines) THEN [ panic |-> FALSE, windows |-> << >> ]
  ELSE LET first == parse_wmctrl_line(lines[i])
           rest == parse_wmctrl_lines(lines, i + 1)
       IN  IF first.panic THEN first
           ELSE [ panic |-> rest.panic, windows |-> first.windows \o rest.windows ]

parse_wmctrl_output(output) ==
  parse_wmctrl_lines(Lines(output, 1), 1)

\* what a tool prints: some lines, each ended by a line feed
RECURSIVE Printed(_, _)
Printed(lines, i) ==
  IF i > Len(lines) THEN << >> ELSE lines[i] \o << 10 >> \o Printed(lines, i + 1)

\* lines xwininfo may print (the text of each between bars): two windows,
\* the first one retitled, the header of a list of children, a blank line,
\* the line of the root window, an id that is not hexadecimal, a line
\* without geometry, and a width that does not fit u32
XwininfoLines ==
  {
    \* |     0x1c00001 "LibreWolf": ("librewolf" "LibreWolf")  800x600+100+50  +100+50|
    << 32, 32, 32, 32, 32, 48, 120, 49, 99, 48, 48, 48, 48, 49, 32, 34, 76,
       105, 98, 114, 101, 87, 111, 108, 102, 34, 58, 32, 40, 34, 108, 105,
       98, 114, 101, 119, 111, 108, 102, 34, 32, 34, 76, 105, 98, 114, 101,
       87, 111, 108, 102, 34, 41, 32, 32, 56, 48, 48, 120, 54, 48, 48, 43,
       49, 48, 48, 43, 53, 48, 32, 32, 43, 49, 48, 48, 43, 53, 48 >>,
    \* |     0x2a00003 "Mozilla Firefox": ("Navigator" "firefox")  1024x768-5+0  -5+0|
    << 32, 32, 32, 32, 32, 48, 120, 50, 97, 48, 48, 48, 48, 51, 32, 34, 77,
       111, 122, 105, 108, 108, 97, 32, 70, 105, 114, 101, 102, 111, 120, 34,
       58, 32, 40, 34, 78, 97, 118, 105, 103, 97, 116, 111, 114, 34, 32, 34,
       102, 105, 114, 101, 102, 111, 120, 34, 41, 32, 32, 49, 48, 50, 52,
       120, 55, 54, 56, 45, 53, 43, 48, 32, 32, 45, 53, 43, 48 >>,
    \* |     0x1c00001 "Chromium": ("librewolf" "LibreWolf")  800x600+100+50  +100+50|
    << 32, 32, 32, 32, 32, 48, 120, 49, 99, 48, 48, 48, 48, 49, 32, 34, 67,
       104, 114, 111, 109, 105, 117, 109, 34, 58, 32, 40, 34, 108, 105, 98,
       114, 101, 119, 111, 108, 102, 34, 32, 34, 76, 105, 98, 114, 101, 87,
       111, 108, 102, 34, 41, 32, 32, 56, 48, 48, 120, 54, 48, 48, 43, 49,
       48, 48, 43, 53, 48, 32, 32, 43, 49, 48, 48, 43, 53, 48 >>,
    \* |  3 children:|
    << 32, 32, 51, 32, 99, 104, 105, 108, 100, 114, 101, 110, 58 >>,
    \* |   |
    << 32, 32, 32 >>,
    \* |xwininfo: Window id: 0x50e (the root window) (has no name)|
    << 120, 119, 105, 110, 105, 110, 102, 111, 58, 32, 87, 105, 110, 100,
       111, 119, 32, 105, 100, 58, 32, 48, 120, 53, 48, 101, 32, 40, 116,
       104, 101, 32, 114, 111, 111, 116, 32, 119, 105, 110, 100, 111, 119,
       41, 32, 40, 104, 97, 115, 32, 110, 111, 32, 110, 97, 109, 101, 41 >>,
    \* |     0x1c0000z "Bad id": ()  10x10+0+0  +0+0|
    << 32, 32, 32, 32, 32, 48, 120, 49, 99, 48, 48, 48, 48, 122, 32, 34, 66,
       97, 100, 32, 105, 100, 34, 58, 32, 40, 41, 32, 32, 49, 48, 120, 49,
       48, 43, 48, 43, 48, 32, 32, 43, 48, 43, 48 >>,
    \* |     0x1c00002 "No geometry": ("a" "b")|
    << 32, 32, 32, 32, 32, 48, 120, 49, 99, 48, 48, 48, 48, 50, 32, 34, 78,
       111, 32, 103, 101, 111, 109, 101, 116, 114, 121, 34, 58, 32, 40, 34,
       97, 34, 32, 34, 98, 34, 41 >>,
    \* |     0x1c00004 "Huge": ("a" "b")  99999999999x600+0+0  +0+0|
    << 32, 32, 32, 32, 32, 48, 120, 49, 99, 48, 48, 48, 48, 52, 32, 34, 72,
       117, 103, 101, 34, 58, 32, 40, 34, 97, 34, 32, 34, 98, 34, 41, 32, 32,
       57, 57, 57, 57, 57, 57, 57, 57, 57, 57, 57, 120, 54, 48, 48, 43, 48,
       43, 48, 32, 32, 43, 48, 43, 48 >> }

\* lines wmctrl may print: two windows, a line of four columns, columns
\* that are no numbers, an id that is not hexadecimal, a window without
\* title, and a line of words whose first word is one letter
WmctrlLines ==
  {
    \* |0x01c00001  0 100 50 800 600 hostname LibreWolf|
    << 48, 120, 48, 49, 99, 48, 48, 48, 48, 49, 32, 32, 48, 32, 49, 48, 48,
       32, 53, 48, 32, 56, 48, 48, 32, 54, 48, 48, 32, 104, 111, 115, 116,
       110, 97, 109, 101, 32, 76, 105, 98, 114, 101, 87, 111, 108, 102 >>,
    \* |0x02a00003  0 -5 0 1024 768 hostname Mozilla Firefox|
    << 48, 120, 48, 50, 97, 48, 48, 48, 48, 51, 32, 32, 48, 32, 45, 53, 32,
       48, 32, 49, 48, 50, 52, 32, 55, 54, 56, 32, 104, 111, 115, 116, 110,
       97, 109, 101, 32, 77, 111, 122, 105, 108, 108, 97, 32, 70, 105, 114,
       101, 102, 111, 120 >>,
    \* |0x01c00002  0 100 50|
    << 48, 120, 48, 49, 99, 48, 48, 48, 48, 50, 32, 32, 48, 32, 49, 48, 48,
       32, 53, 48 >>,
    \* |0x01c00003  0 left top 800 600 hostname Title|
    << 48, 120, 48, 49, 99, 48, 48, 48, 48, 51, 32, 32, 48, 32, 108, 101,
       102, 116, 32, 116, 111, 112, 32, 56, 48, 48, 32, 54, 48, 48, 32, 104,
       111, 115, 116, 110, 97, 109, 101, 32, 84, 105, 116, 108, 101 >>,
    \* |0xzz  0 100 50 800 600 hostname Title|
    << 48, 120, 122, 122, 32, 32, 48, 32, 49, 48, 48, 32, 53, 48, 32, 56, 48,
       48, 32, 54, 48, 48, 32, 104, 111, 115, 116, 110, 97, 109, 101, 32, 84,
       105, 116, 108, 101 >>,
    \* |0x01c00004 -1 0 0 10 10 hostname|
    << 48, 120, 48, 49, 99, 48, 48, 48, 48, 52, 32, 45, 49, 32, 48, 32, 48,
       32, 49, 48, 32, 49, 48, 32, 104, 111, 115, 116, 110, 97, 109, 101 >>,
    \* |I could not read the list of windows|
    << 73, 32, 99, 111, 117, 108, 100, 32, 110, 111, 116, 32, 114, 101, 97,
       100, 32, 116, 104, 101, 32, 108, 105, 115, 116, 32, 111, 102, 32, 119,
       105, 110, 100, 111, 119, 115 >> }

XwininfoOutputs ==
  { Printed(ls, 1) : ls \in UNION { [1..n -> XwininfoLines] : n \in 0..MaxLines } }

WmctrlOutputs ==
  { Printed(ls, 1) : ls \in UNION { [1..n -> WmctrlLines] : n \in 0..MaxLines } }

\* what the two readers return for each of these outputs
XwininfoParsed == [ output \in XwininfoOutputs |-> parse_xwininfo_output(output) ]

WmctrlParsed == [ output \in WmctrlOutputs |-> parse_wmctrl_output(output) ]

\* One iteration of the loop of GuestAgent::run, primary path, from the
\* text xwininfo printed
ScanXwininfo ==
  \E output \in XwininfoOutputs :
    /\ tool_output' = output
    /\ ScanPrimaryOf({ XwininfoParsed[output] })

\* The fallback path from the text wmctrl printed: a panic in
\* parse_wmctrl_output unwinds through scan_windows and run, and the
\* process ends; otherwise the parsed list is dropped and the tick is Ok
ScanWmctrl ==
  /\ agent = "running"
  /\ \E output \in WmctrlOutputs :
       LET r == WmctrlParsed[output]
       IN  /\ tool_output' = output
           /\ snapshot' = IF r.panic THEN snapshot ELSE r.windows
           /\ agent' = IF r.panic THEN "panicked" ELSE "running"
  /\ scanned' = "wmctrl"
  /\ sent' = <<>>
  /\ UNCHANGED << windows, send_failed, wireVars, proxyVars, clipVars >>
  /\ UNCHANGED << codecVars, procVars >>
  /\ UNCHANGED << orderVars, lockVars >>

\* ------------------------------------------------------------------------
\* GuestAgent::monitor_processes (process watcher)
\* ------------------------------------------------------------------------
Pids == { 7, 8, 9 }

\* what pgrep may print: one line per matching process, each pid once
PidListings ==
  { s \in UNION { [1..n -> Pids] : n \in 0..MaxPids } :
      \A i, j \in DOMAIN s : i # j => s[i] # s[j] }

\* the messages one tick hands to send_message, in order
TickMessages(listing) ==
  [ i \in DOMAIN listing |-> ApplicationStarted(S_detected, listing[i]) ]

\* a watcher that reports a process once and reports its end
MonitorProcesses_Diffing ==
  /\ agent = "running"
  /\ \E listing \in PidListings :
       LET old == { pids[i] : i \in DOMAIN pids }
           new == { listing[i] : i \in DOMAIN listing }
           IsNew(pid) == pid \notin old
           IsGone(pid) == pid \notin new
           started == TickMessages(SelectSeq(listing, IsNew))
           gone == SelectSeq(pids, IsGone)
       IN  /\ app_sent' = IF conn = "open"
                          THEN started \o [ i \in DOMAIN gone |-> ApplicationStopped(S_detected, gone[i]) ]
                          ELSE << >>
           /\ pids' = listing
  /\ prev_pids' = pids
  /\ UNCHANGED << diffVars, wireVars, proxyVars, clipVars, codecVars >>
  /\ UNCHANGED << orderVars, parseVars, lockVars >>

\* One iteration of the loop of monitor_processes.  pgrep may fail to run
\* (nothing is sent); the host may stop reading during the tick: the first k
\* sends succeed, the Err of the others is dropped by `let _ =`.
MonitorProcesses ==
  /\ agent = "running"
  /\ \E ran \in BOOLEAN, listing \in PidListings :
       LET out == IF ran THEN TickMessages(listing) ELSE << >>
       IN  /\ (~ran => listing = << >>)
           /\ pids' = listing
           /\ IF conn = "open"
              THEN \E k \in 0..Len(out) :
                     /\ app_sent' = SubSeq(out, 1, k)
                     /\ conn' = IF k = Len(out) THEN "open" ELSE "closed"
              ELSE /\ app_sent' = << >>
                   /\ UNCHANGED conn
  /\ prev_pids' = pids
  /\ UNCHANGED << diffVars, wire, rpos, sending, nsent, h_state, received, dropped,
                  proxyVars, clipVars, codecVars >>
  /\ UNCHANGED << orderVars, parseVars, lockVars >>

InitDiff ==
  /\ windows = EmptyMap
  /\ snapshot = <<>>
  /\ sent = <<>>
  /\ agent = "running"
  /\ send_failed = FALSE
  /\ scanned = "never"

\* ------------------------------------------------------------------------
\* Guest transport: GuestAgent::send_message called from the window thread
\* (self.host_socket) and from the process-watcher thread (socket_clone, the
\* same socket after try_clone); no lock is taken around the two write_all
\* calls of one send_message.
\* ------------------------------------------------------------------------
Threads == {"window", "process"}
Idle == [ phase |-> "idle" ]

\* messages the two threads hand to send_message (a window moved to y = 24,
\* just below a panel: 24 is also the length of the process watcher's payload)
ThreadMessages(t) ==
  IF t = "window" THEN { WindowDestroyed(1), WindowMoved(2, 0, -50), WindowMoved(2, 0, 24) }
  ELSE { ApplicationStarted(S_detected, 7) }

\* let data = bincode::serialize(msg)?; let len = data.len() as u32;
BeginSend(t) ==
  /\ conn = "open"
  /\ sending[t].phase = "idle"
  /\ nsent[t] < MaxFrames
  /\ \E msg \in ThreadMessages(t) :
       /\ sending' = [sending EXCEPT ![t] = [ phase |-> "len", data |-> serialize(WindowMessageSchema, msg) ]]
       /\ generated' = IF t = "window" THEN Append(generated, msg) ELSE generated
  /\ UNCHANGED << wire, rpos, conn, nsent, h_state, received, dropped, diffVars, proxyVars, clipVars >>
  /\ UNCHANGED << codecVars, procVars >>
  /\ UNCHANGED << parseVars, lockVars >>

\* socket.write_all(&len.to_le_bytes())?;
WriteLen(t) ==
  /\ conn = "open"
  /\ sending[t].phase = "len"
  /\ wire' = wire \o LengthPrefix(sending[t].data)
  /\ sending' = [sending EXCEPT ![t].phase = "data"]
  /\ UNCHANGED << rpos, conn, nsent, h_state, received, dropped, diffVars, proxyVars, clipVars >>
  /\ UNCHANGED << codecVars, procVars >>
  /\ UNCHANGED << orderVars, parseVars, lockVars >>

\* socket.write_all(&data)?; Ok(())
WriteData(t) ==
  /\ conn = "open"
  /\ sending[t].phase = "data"
  /\ wire' = wire \o sending[t].data
  /\ sending' = [sending EXCEPT ![t] = Idle]
  /\ nsent' = [nsent EXCEPT ![t] = @ + 1]
  /\ UNCHANGED << rpos, conn, h_state, received, dropped, diffVars, proxyVars, clipVars >>
  /\ UNCHANGED << codecVars, procVars >>
  /\ UNCHANGED << orderVars, parseVars, lockVars >>

\* the guest agent process ends (run returned, or the process was killed):
\* the socket is closed wherever the threads are
GuestExit ==
  /\ conn = "open"
  /\ conn' = "closed"
  /\ UNCHANGED << wire, rpos, sending, nsent, h_state, received, dropped, diffVars, proxyVars, clipVars >>
  /\ UNCHANGED << codecVars, procVars >>
  /\ UNCHANGED << orderVars, parseVars, lockVars >>

\* ------------------------------------------------------------------------
\* VMIntegrationHost::handle_guest_connection: one iteration of its loop
\* ------------------------------------------------------------------------
Unread == SubSeq(wire, rpos + 1, Len(wire))

\* the match on the decoded message: every arm only prints
HandleGuestMessage(msg) ==
  /\ received' = Append(received, msg)
  /\ UNCHANGED << dropped, proxy_windows >>

\* a handler that gives up the connection at the first frame it cannot decode
AfterFrame_Strict(decoded) == IF decoded THEN "reading" ELSE "error"

\* the state of the loop after a frame was read: `if let Ok(msg)` has no else
AfterFrame(decoded) == "reading"

HostRead ==
  /\ h_state = "reading"
  /\ IF Len(Unread) < 4
     THEN \* read_exact(&mut len_buf) blocks, or fails at end of stream -> break
          /\ conn = "closed"
          /\ h_state' = "disconnected"
          /\ UNCHANGED << rpos, received, dropped, proxy_windows >>
     ELSE LET len == U32Value(SubSeq(Unread, 1, 4))
          IN  IF Len(Unread) - 4 < len
              THEN \* read_exact(&mut buffer[..len])? blocks, or fails -> return Err
                   /\ conn = "closed"
                   /\ h_state' = "error"
                   /\ UNCHANGED << rpos, received, dropped, proxy_windows >>
              ELSE LET r == deserialize(WindowMessageSchema, SubSeq(Unread, 5, 4 + len))
                   IN  /\ rpos' = rpos + 4 + len
                       /\ h_state' = AfterFrame(r.ok)
                       /\ IF r.ok THEN HandleGuestMessage(r.msg)
                          ELSE /\ dropped' = dropped + 1
                               /\ UNCHANGED << received, proxy_windows >>
  /\ UNCHANGED << wire, conn, sending, nsent, vm_pending, vm_out, diffVars, clipVars >>
  /\ UNCHANGED << codecVars, procVars >>
  /\ UNCHANGED << orderVars, parseVars, lockVars >>

\* ------------------------------------------------------------------------
\* The guest agent's window loop connected to handle_guest_connection: each
\* tick's messages go through send_message, one whole frame after the other
\* (no other thread writes), and the host handler reads them in order
\* ------------------------------------------------------------------------
RECURSIVE FramesOf(_, _)
FramesOf(msgs, i) ==
  IF i > Len(msgs) THEN <<>>
  ELSE Frame(serialize(WindowMessageSchema, msgs[i])) \o FramesOf(msgs, i + 1)

\* one iteration of the loop of GuestAgent::run on the primary path, every
\* send_message returning Ok(())
GuestTick ==
  /\ agent = "running"
  /\ conn = "open"
  /\ \E cur \in Listings, key_order \in KeyOrders(windows) :
       LET r == DiffWindows(windows, cur, key_order, -1)
       IN  /\ nsent["window"] + Len(r.out) <= MaxSyncFrames
           /\ windows' = r.reg
           /\ sent' = r.out
           /\ snapshot' = cur
           /\ wire' = wire \o FramesOf(r.out, 1)
           /\ generated' = generated \o r.out
           /\ nsent' = [nsent EXCEPT !["window"] = @ + Len(r.out)]
  /\ scanned' = "xwininfo"
  /\ UNCHANGED << agent, send_failed, rpos, conn, sending, h_state, received, dropped,
                  proxyVars, clipVars >>
  /\ UNCHANGED << codecVars, procVars >>
  /\ UNCHANGED << parseVars, lockVars >>

\* ------------------------------------------------------------------------
\* A peer of the TCP listener (run_socket_server accepts any connection):
\* it writes whole frames, some with a payload that is no WindowMessage, and
\* may close the connection at any byte
\* ------------------------------------------------------------------------
PeerMessages ==
  { WindowCreated(WindowInfo(1, S_Firefox, BaseGeometry)), WindowDestroyed(1),
    WindowResized(2, 1024, 600) }

\* payloads bincode cannot decode: an unknown variant index, a truncated
\* WindowDestroyed
BadPayloads == { <<9, 0, 0, 0>>, <<1, 0, 0, 0, 1, 0>> }

PeerFrames ==
  { Frame(serialize(WindowMessageSchema, m)) : m \in PeerMessages }
    \cup { Frame(b) : b \in BadPayloads }

\* a peer of the listener writes one whole frame (the writes of the one
\* peer of a connection are counted in nsent["window"])
PeerSend ==
  /\ conn = "open"
  /\ nsent["window"] < MaxFrames
  /\ \E f \in PeerFrames : wire' = wire \o f
  /\ nsent' = [nsent EXCEPT !["window"] = @ + 1]
  /\ UNCHANGED << rpos, conn, sending, h_state, received, dropped, diffVars, proxyVars, clipVars >>
  /\ UNCHANGED << codecVars, procVars >>
  /\ UNCHANGED << orderVars, parseVars, lockVars >>

\* the peer goes away after the first n bytes of a frame (n = 0: between frames)
PeerClose ==
  /\ conn = "open"
  /\ \E f \in PeerFrames, n \in 0..7 :
       /\ n < Len(f)
       /\ wire' = wire \o SubSeq(f, 1, n)
  /\ conn' = "closed"
  /\ UNCHANGED << rpos, sending, nsent, h_state, received, dropped, diffVars, proxyVars, clipVars >>
  /\ UNCHANGED << codecVars, procVars >>
  /\ UNCHANGED << orderVars, parseVars, lockVars >>

\* ------------------------------------------------------------------------
\* WindowProxy::handle_vm_messages / handle_vm_message
\* ------------------------------------------------------------------------
\* struct ProxiedWindow without its compositor handles
ProxiedWindow(id, title, width, height) ==
  [ vm_window_id |-> id, width |-> width, height |-> height, title |-> title ]

\* a WindowResized arm that registers a window it does not know
WindowResizedArm_Upsert(reg, msg) ==
  [ i \in (DOMAIN reg) \cup {msg.id} |->
      IF i = msg.id
      THEN ProxiedWindow(msg.id, IF i \in DOMAIN reg THEN reg[i].title ELSE <<>>,
                         msg.width, msg.height)
      ELSE reg[i] ]

\* the arm WindowMessage::WindowResized of handle_vm_message
WindowResizedArm(reg, msg) ==
  IF msg.id \in DOMAIN reg
  THEN [reg EXCEPT ![msg.id].width = msg.width, ![msg.id].height = msg.height]
  ELSE reg

\* the arm WindowMessage::WindowCreated of handle_vm_message:
\* windows.lock().unwrap().insert(id, proxied_window)
WindowCreatedArm(reg, msg) ==
  [ i \in (DOMAIN reg) \cup {msg.id} |->
      IF i = msg.id THEN ProxiedWindow(msg.id, msg.title, msg.width, msg.height)
      ELSE reg[i] ]

\* the registry after handle_vm_message(msg)
handle_vm_message(reg, msg) ==
  CASE msg.type = "WindowCreated" -> WindowCreatedArm(reg, msg)
    [] msg.type = "WindowDestroyed" -> Remove(reg, msg.id)
    [] msg.type = "WindowResized" -> WindowResizedArm(reg, msg)
    [] msg.type = "WindowTitleChanged" ->
         IF msg.id \in DOMAIN reg THEN [reg EXCEPT ![msg.id].title = msg.title] ELSE reg
    [] OTHER -> reg   \* WindowMoved, WindowFocusChanged, Application*: println! only

\* a handler that acknowledges every message with send_to_vm
VmReplies_Echo(msg) == << serialize(WindowMessageSchema, msg) >>

\* what handle_vm_message writes to the VM for msg: no arm calls send_to_vm
VmReplies(msg) == << >>

\* what the VM end of the WindowProxy connection writes: one serialized
\* WindowMessage per write, without a length prefix (handle_vm_messages
\* decodes the bytes of one read as one message)
ProxyMessages ==
  { WindowCreated(WindowInfo(1, S_Firefox, BaseGeometry)),
    WindowCreated(WindowInfo(2, S_Chromium, BaseGeometry)),
    WindowDestroyed(1),
    WindowResized(1, 1024, 768), WindowResized(2, 1024, 768),
    WindowTitleChanged(1, S_Chromium), WindowTitleChanged(2, S_Chromium),
    WindowMoved(1, 100, 0), WindowMoved(2, 100, 0),
    WindowFocusChanged(1, TRUE), WindowFocusChanged(2, TRUE),
    ApplicationStarted(S_detected, 7), ApplicationStopped(S_detected, 7) }

VmWrite ==
  /\ conn = "open"
  /\ nsent["window"] < MaxProxyMsgs
  /\ \E m \in ProxyMessages : vm_pending' = Append(vm_pending, serialize(WindowMessageSchema, m))
  /\ nsent' = [nsent EXCEPT !["window"] = @ + 1]
  /\ UNCHANGED << wire, rpos, conn, sending, h_state, received, dropped, proxy_windows,
                  vm_out, diffVars, clipVars >>
  /\ UNCHANGED << codecVars, procVars >>
  /\ UNCHANGED << orderVars, parseVars, lockVars >>

VmClose ==
  /\ conn = "open"
  /\ conn' = "closed"
  /\ UNCHANGED << wire, rpos, sending, nsent, h_state, received, dropped, proxyVars,
                  diffVars, clipVars >>
  /\ UNCHANGED << codecVars, procVars >>
  /\ UNCHANGED << orderVars, parseVars, lockVars >>

\* the bytes of the first k pending chunks: what one read() returns when the
\* k writes have arrived together
RECURSIVE Coalesce(_, _)
Coalesce(chunks, k) == IF k = 0 THEN <<>> ELSE Coalesce(chunks, k - 1) \o chunks[k]

\* The WindowCreated arm builds its ProxiedWindow with
\* `unsafe { std::mem::zeroed() }` for the WlSurface, XdgSurface and
\* XdgToplevel handles.  An all-zero value of such a handle is not a valid
\* value (undefined behaviour): the call panics where the compiler checks
\* zero-initialisation, and otherwise yields a value the arm goes on with.
PlaceholderOutcomes == {"panic", "value"}

\* one iteration of the loop of handle_vm_messages with Ok(n), n > 0
ProxyRead ==
  /\ h_state = "reading"
  /\ \E k \in 1..Len(vm_pending), placeholder \in PlaceholderOutcomes :
       LET r == deserialize(WindowMessageSchema, Coalesce(vm_pending, k))
           panics == r.ok /\ r.msg.type = "WindowCreated" /\ placeholder = "panic"
       IN  /\ vm_pending' = SubSeq(vm_pending, k + 1, Len(vm_pending))
           /\ IF r.ok
              THEN /\ proxy_windows' = IF panics THEN proxy_windows
                                       ELSE handle_vm_message(proxy_windows, r.msg)
                   /\ vm_out' = vm_out \o VmReplies(r.msg)
                   /\ received' = Append(received, r.msg)
                   /\ UNCHANGED dropped
              ELSE /\ dropped' = dropped + 1
                   /\ UNCHANGED << proxy_windows, vm_out, received >>
           \* a panic unwinds the spawned thread: the loop is gone
           /\ h_state' = IF panics THEN "panicked" ELSE "reading"
  /\ UNCHANGED << wire, rpos, conn, sending, nsent, diffVars, clipVars >>
  /\ UNCHANGED << codecVars, procVars >>
  /\ UNCHANGED << orderVars, parseVars, lockVars >>

\* one iteration with Ok(0) (end of stream) or Err: sleep 10 ms and loop
ProxyIdle ==
  /\ h_state = "reading"
  /\ conn = "closed"
  /\ vm_pending = <<>>
  /\ UNCHANGED vars

\* ------------------------------------------------------------------------
\* ClipboardProxy::run, monitor_host_clipboard, set_host_clipboard
\* ------------------------------------------------------------------------
SetClipboard(text) == [ type |-> "SetClipboard", text |-> text ]
GetClipboard == [ type |-> "GetClipboard" ]
ClipboardContent(text) == [ type |-> "ClipboardContent", text |-> text ]

ClipRequests == { SetClipboard(S_hello), GetClipboard, ClipboardContent(S_hello) }

\* the VM end writes one serialized ClipboardMessage per write
ClipWrite ==
  /\ conn = "open"
  /\ nsent["window"] < MaxClipMsgs
  /\ \E m \in ClipRequests : vm_pending' = Append(vm_pending, serialize(ClipboardMessageSchema, m))
  /\ nsent' = [nsent EXCEPT !["window"] = @ + 1]
  /\ UNCHANGED << wire, rpos, conn, sending, h_state, received, dropped, proxy_windows,
                  vm_out, diffVars, clipVars >>
  /\ UNCHANGED << codecVars, procVars >>
  /\ UNCHANGED << orderVars, parseVars, lockVars >>

\* one iteration of the loop of ClipboardProxy::run with Ok(n), n > 0, up to
\* the call of set_host_clipboard
ClipRead ==
  /\ h_state = "reading"
  /\ \E k \in 1..Len(vm_pending) :
       LET r == deserialize(ClipboardMessageSchema, Coalesce(vm_pending, k))
       IN  /\ vm_pending' = SubSeq(vm_pending, k + 1, Len(vm_pending))
           /\ IF ~r.ok
              THEN /\ dropped' = dropped + 1
                   /\ UNCHANGED << received, h_state, host_clipboard, vm_out, ext_changed >>
              ELSE /\ received' = Append(received, r.msg)
                   /\ UNCHANGED dropped
                   /\ CASE r.msg.type = "SetClipboard" ->
                             \* *self.host_clipboard.lock().unwrap() = content.clone();
                             /\ host_clipboard' = r.msg.text
                             /\ h_state' = "wl-copy"
                             /\ ext_changed' = FALSE
                             /\ UNCHANGED vm_out
                        [] r.msg.type = "GetClipboard" ->
                             \* let _ = conn.write_all(&bincode::serialize(&response).unwrap())
                             /\ vm_out' = IF conn = "open"
                                           THEN Append(vm_out, serialize(ClipboardMessageSchema,
                                                                 ClipboardContent(host_clipboard)))
                                           ELSE vm_out
                             /\ UNCHANGED << h_state, host_clipboard, ext_changed >>
                        [] OTHER ->
                             UNCHANGED << h_state, host_clipboard, vm_out, ext_changed >>
  /\ UNCHANGED << wire, rpos, conn, sending, nsent, proxy_windows, sys_clipboard, watcher, diffVars >>
  /\ UNCHANGED << codecVars, procVars >>
  /\ UNCHANGED << orderVars, parseVars, lockVars >>

\* one iteration of the loop of ClipboardProxy::run whose read returns Ok(0),
\* the end of the stream: the `_` arm sleeps 100 ms ...
ClipIdle ==
  /\ h_state = "reading"
  /\ conn = "closed"
  /\ vm_pending = <<>>
  /\ h_state' = "sleeping"
  /\ UNCHANGED << wire, rpos, conn, sending, nsent, received, dropped, proxyVars,
                  clipVars, diffVars >>
  /\ UNCHANGED << codecVars, procVars >>
  /\ UNCHANGED << orderVars, parseVars, lockVars >>

\* ... and `loop` starts the next iteration: lock, read
ClipWake ==
  /\ h_state = "sleeping"
  /\ h_state' = "reading"
  /\ UNCHANGED << wire, rpos, conn, sending, nsent, received, dropped, proxyVars,
                  clipVars, diffVars >>
  /\ UNCHANGED << codecVars, procVars >>
  /\ UNCHANGED << orderVars, parseVars, lockVars >>

\* set_host_clipboard(&content): wl-copy is spawned and fed the content, or
\* cannot be started and expect() panics
SetHostClipboard ==
  /\ h_state = "wl-copy"
  /\ \E started \in BOOLEAN :
       IF started
       THEN /\ sys_clipboard' = received[Len(received)].text
            /\ h_state' = "reading"
       ELSE /\ h_state' = "panicked"
            /\ UNCHANGED sys_clipboard
  /\ UNCHANGED << wire, rpos, conn, sending, nsent, received, dropped, proxyVars,
                  host_clipboard, watcher, ext_changed, diffVars >>
  /\ UNCHANGED << codecVars, procVars >>
  /\ UNCHANGED << orderVars, parseVars, lockVars >>

\* monitor_host_clipboard: wl-paste runs and its output is taken (the
\* newline wl-paste appends to the text is left out) ...
WatcherPaste ==
  /\ h_state # "panicked"
  /\ watcher.phase = "idle"
  /\ \E success \in BOOLEAN :
       watcher' = IF success THEN [ phase |-> "store", content |-> sys_clipboard ]
                  ELSE watcher   \* wl-paste missing or failed: sleep 1 s
  /\ UNCHANGED << wireVars, proxyVars, host_clipboard, sys_clipboard, ext_changed, diffVars >>
  /\ UNCHANGED << codecVars, procVars >>
  /\ UNCHANGED << orderVars, parseVars, lockVars >>

\* a watcher that pushes what it saw to the VM
WatcherStore_Push ==
  /\ h_state # "panicked"
  /\ watcher.phase = "store"
  /\ host_clipboard' = watcher.content
  /\ watcher' = [ phase |-> "idle", content |-> <<>> ]
  /\ vm_out' = Append(vm_out, serialize(ClipboardMessageSchema, ClipboardContent(watcher.content)))
  /\ UNCHANGED << wireVars, proxy_windows, vm_pending, sys_clipboard, ext_changed, diffVars >>
  /\ UNCHANGED << codecVars, procVars >>
  /\ UNCHANGED << orderVars, parseVars, lockVars >>

\* ... and then stored: *clipboard.lock().unwrap() = content; sleep 1 s
WatcherStore ==
  /\ h_state # "panicked"
  /\ watcher.phase = "store"
  /\ host_clipboard' = watcher.content
  /\ watcher' = [ phase |-> "idle", content |-> <<>> ]
  /\ UNCHANGED << wireVars, proxyVars, sys_clipboard, ext_changed, diffVars >>
  /\ UNCHANGED << codecVars, procVars >>
  /\ UNCHANGED << orderVars, parseVars, lockVars >>

\* the user of the host copies something
UserCopy ==
  /\ sys_clipboard # S_user
  /\ sys_clipboard' = S_user
  /\ ext_changed' = TRUE
  /\ UNCHANGED << wireVars, proxyVars, host_clipboard, watcher, diffVars >>
  /\ UNCHANGED << codecVars, procVars >>
  /\ UNCHANGED << orderVars, parseVars, lockVars >>

\* ------------------------------------------------------------------------
\* The host's threads and the mutexes they take: the thread of
\* WindowProxy::handle_vm_messages, the thread running ClipboardProxy::run and
\* the thread of ClipboardProxy::monitor_host_clipboard.  Each thread is at a
\* statement; a statement locks a mutex, drops a guard, or does work of its
\* own after which the thread is at one of several statements.
\* ------------------------------------------------------------------------
\* WindowProxy.windows: Arc<Mutex<HashMap<u32, ProxiedWindow>>>
RegistryLock == "windows"

\* ClipboardProxy.host_clipboard: Arc<Mutex<String>>
ClipboardLock == "host_clipboard"

\* WindowProxy.vm_connection and ClipboardProxy.vm_connection
ProxyConnLock == "proxy_vm_connection"
ClipConnLock == "clip_vm_connection"

Locks == { RegistryLock, ClipboardLock, ProxyConnLock, ClipConnLock }

LockThreads == { "vm_messages", "clip_run", "watcher" }

Lock(l, next) == [ op |-> "lock", lock |-> l, next |-> {next} ]
Unlock(l, next) == [ op |-> "unlock", lock |-> l, next |-> {next} ]
Work(nexts) == [ op |-> "work", lock |-> "none", next |-> nexts ]

\* a handler that copies the new title to the clipboard value while it
\* holds the registry
VmMessagesProgram_ClipUnderRegistry ==
  [ loop    |-> Lock(ProxyConnLock, "read"),
    read    |-> Work({"zeroed", "want", "end"}),
    zeroed  |-> Work({"want", "unwind"}),
    want    |-> Lock(RegistryLock, "update"),
    update  |-> Lock(ClipboardLock, "copy"),
    copy    |-> Unlock(ClipboardLock, "updated"),
    updated |-> Unlock(RegistryLock, "end"),
    end     |-> Unlock(ProxyConnLock, "loop"),
    unwind  |-> Unlock(ProxyConnLock, "dead"),
    dead    |-> Work({}) ]

\* handle_vm_messages with handle_vm_message inlined
VmMessagesProgram ==
  [ loop    |-> Lock(ProxyConnLock, "read"),          \* let mut conn = vm_conn.lock().unwrap();
    read    |-> Work({"zeroed", "want", "end"}),      \* conn.read, deserialize, match msg
    zeroed  |-> Work({"want", "unwind"}),             \* WindowCreated: mem::zeroed() placeholders
    want    |-> Lock(RegistryLock, "update"),         \* windows.lock().unwrap()
    update  |-> Unlock(RegistryLock, "end"),          \* insert / remove / get_mut; guard dropped
    end     |-> Unlock(ProxyConnLock, "loop"),        \* end of the iteration: conn dropped
    unwind  |-> Unlock(ProxyConnLock, "dead"),        \* a panic drops conn (and poisons it)
    dead    |-> Work({}) ]

\* ClipboardProxy::run
ClipRunProgram ==
  [ loop      |-> Lock(ClipConnLock, "read"),         \* let mut conn = self.vm_connection.lock().unwrap();
    read      |-> Work({"set_lock", "get_lock", "end"}),
    set_lock  |-> Lock(ClipboardLock, "set_store"),   \* *self.host_clipboard.lock().unwrap() = ...;
    set_store |-> Unlock(ClipboardLock, "wl_copy"),
    wl_copy   |-> Work({"end", "unwind"}),            \* Self::set_host_clipboard(&content)
    get_lock  |-> Lock(ClipboardLock, "get_clone"),   \* self.host_clipboard.lock().unwrap().clone();
    get_clone |-> Unlock(ClipboardLock, "reply"),
    reply     |-> Work({"end"}),                      \* let _ = conn.write_all(&data);
    end       |-> Unlock(ClipConnLock, "loop"),       \* sleep in the `_` arm; conn dropped
    unwind    |-> Unlock(ClipConnLock, "dead"),
    dead      |-> Work({}) ]

\* a watcher that pushes what it stored to the VM before it drops its guard
WatcherProgram_Push ==
  [ loop    |-> Work({"w_lock", "sleep"}),
    w_lock  |-> Lock(ClipboardLock, "w_push"),
    w_push  |-> Lock(ClipConnLock, "w_sent"),
    w_sent  |-> Unlock(ClipConnLock, "w_store"),
    w_store |-> Unlock(ClipboardLock, "sleep"),
    sleep   |-> Work({"loop"}) ]

\* ClipboardProxy::monitor_host_clipboard
WatcherProgram ==
  [ loop    |-> Work({"w_lock", "sleep"}),            \* wl-paste ran and succeeded, or not
    w_lock  |-> Lock(ClipboardLock, "w_store"),       \* *clipboard.lock().unwrap() = content;
    w_store |-> Unlock(ClipboardLock, "sleep"),
    sleep   |-> Work({"loop"}) ]                      \* thread::sleep(1 s)

Program(t) ==
  CASE t = "vm_messages" -> VmMessagesProgram
    [] t = "clip_run" -> ClipRunProgram
    [] t = "watcher" -> WatcherProgram

\* the statement thread t is at
At(t) == Program(t)[pc[t]]

InitLocks ==
  /\ lock_owner = [ l \in Locks |-> "none" ]
  /\ pc = [ t \in LockThreads |-> "loop" ]

\* Mutex::lock returns once the mutex is free
LockStep(t) ==
  /\ At(t).op = "lock"
  /\ lock_owner[At(t).lock] = "none"
  /\ lock_owner' = [lock_owner EXCEPT ![At(t).lock] = t]
  /\ pc' = [pc EXCEPT ![t] = CHOOSE n \in At(t).next : TRUE]
  /\ UNCHANGED << diffVars, wireVars, proxyVars, clipVars, codecVars, procVars,
                  orderVars, parseVars >>

\* the guard is dropped
UnlockStep(t) ==
  /\ At(t).op = "unlock"
  /\ lock_owner[At(t).lock] = t
  /\ lock_owner' = [lock_owner EXCEPT ![At(t).lock] = "none"]
  /\ pc' = [pc EXCEPT ![t] = CHOOSE n \in At(t).next : TRUE]
  /\ UNCHANGED << diffVars, wireVars, proxyVars, clipVars, codecVars, procVars,
                  orderVars, parseVars >>

WorkStep(t) ==
  /\ At(t).op = "work"
  /\ \E n \in At(t).next : pc' = [pc EXCEPT ![t] = n]
  /\ UNCHANGED << lock_owner, diffVars, wireVars, proxyVars, clipVars, codecVars, procVars,
                  orderVars, parseVars >>

\* ------------------------------------------------------------------------
\* One message from a sender's bincode::serialize to the host's
\* bincode::deserialize
\* ------------------------------------------------------------------------
S_utf8 == <<67, 97, 102, 195, 169, 32, 226, 130, 172>>

\* field values: the ends of the ranges, values that need 1, 2, 3 and 4 bytes
\* (u32 values above i32::MAX are beyond the model checker's integers)
U32s == { 0, 1, 255, 256, 29360129, 2147483647 }
I32s == { 0, 100, -1, -50, 2147483647, -2147483647 }
Strings == { << >>, S_Firefox, S_detected, S_utf8 }

CodecWindowMessages ==
  { WindowCreated([ id |-> id, title |-> t, width |-> g[1], height |-> g[2],
                    x |-> g[3], y |-> g[4], app_name |-> a ]) :
      id \in U32s, t \in Strings, a \in { S_unknown, << >> },
      g \in { BaseGeometry, <<0, 2147483647, -1, -2147483647>>, <<256, 1, 2147483647, -50>> } }
    \cup { WindowDestroyed(id) : id \in U32s }
    \cup { WindowMoved(id, x, y) : id \in {1, 2147483647}, x \in I32s, y \in I32s }
    \cup { WindowResized(id, w, h) : id \in {1, 2147483647}, w \in U32s, h \in U32s }
    \cup { WindowTitleChanged(id, t) : id \in U32s, t \in Strings }
    \cup { WindowFocusChanged(id, f) : id \in U32s, f \in BOOLEAN }
    \cup { ApplicationStarted(a, pid) : a \in Strings, pid \in U32s }
    \cup { ApplicationStopped(a, pid) : a \in Strings, pid \in U32s }

CodecClipboardMessages ==
  { SetClipboard(t) : t \in Strings } \cup { GetClipboard }
    \cup { ClipboardContent(t) : t \in Strings }

\* send_message(msg) on the guest, then one iteration of the loop of
\* handle_guest_connection on the frame
WindowRoundTrip ==
  /\ \E msg \in CodecWindowMessages :
       LET frame == Frame(serialize(WindowMessageSchema, msg))
           len == U32Value(SubSeq(frame, 1, 4))
       IN  codec' = [ done |-> TRUE, msg |-> msg,
                      back |-> deserialize(WindowMessageSchema, SubSeq(frame, 5, 4 + len)) ]
  /\ UNCHANGED << diffVars, wireVars, proxyVars, clipVars, procVars >>
  /\ UNCHANGED << orderVars, parseVars, lockVars >>

\* bincode::serialize(msg) of a ClipboardMessage written in one piece, then
\* the deserialize of ClipboardProxy::run on the bytes of one read
ClipboardRoundTrip ==
  /\ \E msg \in CodecClipboardMessages :
       codec' = [ done |-> TRUE, msg |-> msg,
                  back |-> deserialize(ClipboardMessageSchema,
                                       serialize(ClipboardMessageSchema, msg)) ]
  /\ UNCHANGED << diffVars, wireVars, proxyVars, clipVars, procVars >>
  /\ UNCHANGED << orderVars, parseVars, lockVars >>

InitWire ==
  /\ wire = <<>>
  /\ rpos = 0
  /\ conn = "open"
  /\ sending = [t \in Threads |-> Idle]
  /\ nsent = [t \in Threads |-> 0]
  /\ h_state = "reading"
  /\ received = <<>>
  /\ dropped = 0

InitProxy ==
  /\ proxy_windows = EmptyMap
  /\ vm_pending = <<>>
  /\ vm_out = <<>>

\* ClipboardProxy::new: the shared value starts empty; the host clipboard
\* holds some earlier text
InitClip ==
  /\ host_clipboard = <<>>
  /\ sys_clipboard = S_old
  /\ watcher = [ phase |-> "idle", content |-> <<>> ]
  /\ ext_changed = FALSE

\* the guest agent after ticks that left some registry
InitRegistry ==
  /\ windows \in Registries3
  /\ snapshot = <<>>
  /\ sent = <<>>
  /\ agent = "running"
  /\ send_failed = FALSE
  /\ scanned = "never"

InitCodec == codec = [ done |-> FALSE ]

InitProc ==
  /\ pids = << >>
  /\ prev_pids = << >>
  /\ app_sent = << >>

InitOrder == generated = << >>

InitParse == tool_output = << >>

Init ==
  /\ InitDiff /\ InitWire /\ InitProxy /\ InitClip /\ InitCodec /\ InitProc
  /\ InitOrder /\ InitParse /\ InitLocks

NextDiff == ScanPrimary \/ ScanFallback \/ ScanNoTool

SpecDiff == Init /\ [][NextDiff]_vars

NextWire ==
  \/ \E t \in Threads : BeginSend(t)
  \/ \E t \in Threads : WriteLen(t)
  \/ \E t \in Threads : WriteData(t)
  \/ GuestExit
  \/ HostRead

SpecWire == Init /\ [][NextWire]_vars

NextHost == PeerSend \/ PeerClose \/ HostRead

SpecHost == Init /\ [][NextHost]_vars

NextProxy == VmWrite \/ VmClose \/ ProxyRead \/ ProxyIdle

SpecProxy == Init /\ [][NextProxy]_vars

NextClip ==
  \/ ClipWrite \/ VmClose \/ ClipRead \/ ClipIdle \/ ClipWake \/ SetHostClipboard
  \/ WatcherPaste \/ WatcherStore \/ UserCopy

SpecClip == Init /\ [][NextClip]_vars

\* the request loop runs on a thread of its own that is never parked: a step
\* of the loop that can be taken is taken
SpecClipLive == Init /\ [][NextClip]_vars /\ WF_vars(ClipIdle) /\ WF_vars(ClipWake)

NextTick == FirstTick

InitTick ==
  /\ InitRegistry /\ InitWire /\ InitProxy /\ InitClip /\ InitCodec /\ InitProc
  /\ InitOrder /\ InitParse /\ InitLocks

SpecTick == InitTick /\ [][NextTick]_vars

NextDup == ScanDup

SpecDup == Init /\ [][NextDup]_vars

\* ticks of the guest agent that start from the text a listing tool printed
NextParse == ScanXwininfo \/ ScanWmctrl

SpecParse == Init /\ [][NextParse]_vars

NextSync == GuestTick \/ HostRead

SpecSync == Init /\ [][NextSync]_vars

NextLocks ==
  \/ \E t \in LockThreads : LockStep(t)
  \/ \E t \in LockThreads : UnlockStep(t)
  \/ \E t \in LockThreads : WorkStep(t)

SpecLocks == Init /\ [][NextLocks]_vars

NextProc == MonitorProcesses

SpecProc == Init /\ [][NextProc]_vars

NextCodec == WindowRoundTrip \/ ClipboardRoundTrip

SpecCodec == Init /\ [][NextCodec]_vars

\* ========================================================================
\* Properties
\* ========================================================================

\* the registry a window list stands for (ids are unique within a list)
SnapshotMap(cur) ==
  [ id \in { cur[i].id : i \in DOMAIN cur } |->
      cur[CHOOSE i \in DOMAIN cur : cur[i].id = id] ]

\* a registry copy after one emitted event
ApplyEvent(reg, m) ==
  CASE m.type = "WindowCreated" ->
         Insert(reg, [ id |-> m.id, title |-> m.title, width |-> m.width,
                       height |-> m.height, x |-> m.x, y |-> m.y,
                       app_name |-> m.app_name, pid |-> 0 ])
    [] m.type = "WindowDestroyed" -> Remove(reg, m.id)
    [] m.type = "WindowTitleChanged" /\ m.id \in DOMAIN reg ->
         [reg EXCEPT ![m.id].title = m.title]
    [] m.type = "WindowResized" /\ m.id \in DOMAIN reg ->
         [reg EXCEPT ![m.id].width = m.width, ![m.id].height = m.height]
    [] m.type = "WindowMoved" /\ m.id \in DOMAIN reg ->
         [reg EXCEPT ![m.id].x = m.x, ![m.id].y = m.y]
    [] OTHER -> reg

RECURSIVE Replay(_, _, _)
Replay(reg, events, i) ==
  IF i > Len(events) THEN reg ELSE Replay(ApplyEvent(reg, events[i]), events, i + 1)

\* same ids and, per id, the same title, width, height, x, y and app_name
SameWindows(r1, r2) ==
  /\ DOMAIN r1 = DOMAIN r2
  /\ \A id \in DOMAIN r1 :
       /\ r1[id].title = r2[id].title
       /\ r1[id].width = r2[id].width /\ r1[id].height = r2[id].height
       /\ r1[id].x = r2[id].x /\ r1[id].y = r2[id].y
       /\ r1[id].app_name = r2[id].app_name

\* C2 (diff completeness): for consecutive snapshots S1, S2 processed by
\* scan_windows, with the registry equal to S1 before the tick and all sends
\* succeeding, replaying the events of the S2 tick on a copy of the registry
\* seeded with S1 gives a registry equal to S2 in ids, title, width, height,
\* x, y and app_name.
C2_DiffCompleteness ==
  [][ ( /\ scanned' = "xwininfo"
        /\ agent' = "running"
        /\ SameWindows(windows, SnapshotMap(snapshot)) )
      => SameWindows(Replay(windows, sent', 1), SnapshotMap(snapshot')) ]_vars

\* C3 (no-op ticks): if the snapshot of a tick equals, as a set of records,
\* the snapshot of the previous tick, the tick emits no event and leaves the
\* guest registry unchanged.
C3_NoOpTick ==
  [][ ( /\ scanned \in {"xwininfo", "wmctrl"}
        /\ scanned' \in {"xwininfo", "wmctrl"}
        /\ { snapshot[i] : i \in DOMAIN snapshot } = { snapshot'[i] : i \in DOMAIN snapshot' } )
      => (sent' = <<>> /\ windows' = windows) ]_vars

\* C6 (send failures are not fatal): after a failed send the polling loops
\* of the guest agent are still running.
C6_SendFailureNonFatal == send_failed => agent = "running"


\* the whole frames at the head of a byte stream, and what is left after them
RECURSIVE ParseFrames(_)
ParseFrames(b) ==
  IF Len(b) < 4 THEN [ frames |-> <<>>, rest |-> b ]
  ELSE LET len == U32Value(SubSeq(b, 1, 4))
       IN  IF Len(b) - 4 < len THEN [ frames |-> <<>>, rest |-> b ]
           ELSE LET r == ParseFrames(SubSeq(b, 5 + len, Len(b)))
                IN  [ frames |-> << SubSeq(b, 5, 4 + len) >> \o r.frames, rest |-> r.rest ]

\* the decodable payloads of a sequence of frames, decoded, in order
RECURSIVE DecodedFrames(_)
DecodedFrames(fs) ==
  IF fs = <<>> THEN <<>>
  ELSE LET r == deserialize(WindowMessageSchema, Head(fs))
       IN  (IF r.ok THEN << r.msg >> ELSE <<>>) \o DecodedFrames(Tail(fs))

Undecodable(fs) ==
  Cardinality({ i \in DOMAIN fs : ~deserialize(WindowMessageSchema, fs[i]).ok })

\* C1 (framing atomicity): once the window-polling thread and the
\* process-watcher thread have both finished their sends, the byte stream on
\* the connection is a concatenation of whole frames, one for each send, and
\* each payload is a WindowMessage.
C1_FramingAtomicity ==
  (\A t \in Threads : sending[t] = Idle) =>
     LET p == ParseFrames(wire)
     IN  /\ p.rest = <<>>
         /\ Len(p.frames) = nsent["window"] + nsent["process"]
         /\ \A i \in DOMAIN p.frames : deserialize(WindowMessageSchema, p.frames[i]).ok

\* C4 (clipboard round trip): when ClipboardProxy::run has handled
\* SetClipboard(t) and, next, GetClipboard on a connection that is still
\* open, and the host clipboard was not changed from outside in between, the
\* reply it wrote is ClipboardContent(t).
C4_SetThenGet ==
  LET n == Len(received)
  IN  ( /\ n >= 2
        /\ received[n].type = "GetClipboard"
        /\ received[n - 1].type = "SetClipboard"
        /\ conn = "open"
        /\ ~ext_changed )
      => /\ vm_out # <<>>
         /\ LET r == deserialize(ClipboardMessageSchema, vm_out[Len(vm_out)])
            IN  r.ok /\ r.msg = ClipboardContent(received[n - 1].text)

UpdateTypes ==
  { "WindowMoved", "WindowResized", "WindowTitleChanged", "WindowFocusChanged" }

\* C5 (unknown-id tolerance): when handle_vm_message is given WindowMoved,
\* WindowResized, WindowTitleChanged or WindowFocusChanged for an id the
\* registry does not hold, the registry is unchanged and the loop of
\* handle_vm_messages goes on reading.
C5_UnknownIdTolerance ==
  [][ ( /\ Len(received') = Len(received) + 1
        /\ received'[Len(received')].type \in UpdateTypes
        /\ received'[Len(received')].id \notin DOMAIN proxy_windows )
      => (proxy_windows' = proxy_windows /\ h_state' = "reading") ]_vars

\* C5, its case: the last message handled was a resize or a title change for
\* an id that is not in the registry, while another window is registered.
C5_Witness ==
  /\ Len(received) >= 2
  /\ received[Len(received)].type \in { "WindowResized", "WindowTitleChanged" }
  /\ received[Len(received)].id \notin DOMAIN proxy_windows
  /\ proxy_windows # EmptyMap
  /\ h_state = "reading"

\* C7 (one framing everywhere): every write of the host on the clipboard
\* connection is one frame: a 4-byte little-endian length and exactly that
\* many payload bytes.
C7_RepliesAreFramed ==
  \A i \in DOMAIN vm_out :
     LET p == ParseFrames(vm_out[i])
     IN  p.rest = <<>> /\ Len(p.frames) = 1

\* C8 (malformed frame): in handle_guest_connection a frame that does not
\* decode is dropped and nothing else happens: the loop keeps reading until
\* the guest closes, the messages handled are exactly the decodable frames
\* read so far, in order, and while a whole frame is waiting on the connection
\* the loop is there to read it.
C8_MalformedFrameDropped ==
  LET p == ParseFrames(SubSeq(wire, 1, rpos))
  IN  /\ p.rest = <<>>
      /\ received = DecodedFrames(p.frames)
      /\ dropped = Undecodable(p.frames)
      /\ proxy_windows = EmptyMap
      /\ (conn = "open" => h_state = "reading")
      /\ (ParseFrames(Unread).frames # <<>> => h_state = "reading")

\* C8, its case: a frame that did not decode was read and dropped, and a
\* well-formed frame after it was read and handled.
C8_Witness ==
  LET fs == ParseFrames(SubSeq(wire, 1, rpos)).frames
  IN  /\ dropped > 0
      /\ \E i, j \in DOMAIN fs :
            /\ i < j
            /\ ~deserialize(WindowMessageSchema, fs[i]).ok
            /\ deserialize(WindowMessageSchema, fs[j]).ok
      /\ received # <<>>

\* C9 (connection loss): handle_guest_connection never ends with an error:
\* when the guest has closed, the handler ends as a graceful disconnect.
C9_GracefulDisconnect == h_state # "error"

\* C10 (dispatch): the last window message handle_guest_connection handled
\* is reflected in the host registry: after WindowCreated{id} the registry
\* holds id, after WindowDestroyed{id} it does not.
C10_FramesReachRegistry ==
  received # <<>> =>
     LET m == received[Len(received)]
     IN  /\ (m.type = "WindowCreated" => m.id \in DOMAIN proxy_windows)
         /\ (m.type = "WindowDestroyed" => m.id \notin DOMAIN proxy_windows)

\* the message the host loop handled in this step, if it handled one
Handled == Len(received') = Len(received) + 1
LastHandled == received'[Len(received')]

\* C11 (create and destroy): handle_vm_message(WindowCreated{id, title,
\* width, height, ..}) leaves an entry for id with that title, width and
\* height; handle_vm_message(WindowDestroyed{id}) leaves no entry for id; in
\* both cases every other id keeps its entry as it was.
C11_CreateDestroy ==
  [][ (Handled /\ LastHandled.type \in {"WindowCreated", "WindowDestroyed"}) =>
        LET m == LastHandled
        IN  /\ (m.type = "WindowCreated" =>
                  /\ m.id \in DOMAIN proxy_windows'
                  /\ proxy_windows'[m.id].title = m.title
                  /\ proxy_windows'[m.id].width = m.width
                  /\ proxy_windows'[m.id].height = m.height)
            /\ (m.type = "WindowDestroyed" => m.id \notin DOMAIN proxy_windows')
            /\ (DOMAIN proxy_windows') \ {m.id} = (DOMAIN proxy_windows) \ {m.id}
            /\ \A i \in (DOMAIN proxy_windows) \ {m.id} : proxy_windows'[i] = proxy_windows[i] ]_vars

\* C12 (updates of a known window): handle_vm_message of WindowMoved,
\* WindowResized, WindowTitleChanged or WindowFocusChanged for an id in the
\* registry sets that entry's position, size, title or focus to the values of
\* the message.
C12_UpdateApplied ==
  [][ (Handled /\ LastHandled.type \in UpdateTypes /\ LastHandled.id \in DOMAIN proxy_windows) =>
        LET m == LastHandled
            e == proxy_windows'[m.id]
        IN  /\ m.id \in DOMAIN proxy_windows'
            /\ (m.type = "WindowResized" => e.width = m.width /\ e.height = m.height)
            /\ (m.type = "WindowTitleChanged" => e.title = m.title)
            /\ (m.type = "WindowMoved" =>
                  /\ {"x", "y"} \subseteq DOMAIN e
                  /\ e.x = m.x /\ e.y = m.y)
            /\ (m.type = "WindowFocusChanged" =>
                  /\ "focused" \in DOMAIN e
                  /\ e.focused = m.focused) ]_vars

\* C14 (the host window side is silent): WindowProxy never writes to the VM,
\* whatever it receives.
C14_HostNeverWrites == vm_out = << >>

\* C14, its case: the proxy has handled a window creation and another
\* message and has written nothing.
C14_Witness ==
  /\ Len(received) = MaxProxyMsgs
  /\ received[1].type = "WindowCreated"
  /\ vm_pending = << >>
  /\ vm_out = << >>

\* C13 (round-trip codec): for every variant of WindowMessage and of
\* ClipboardMessage and every field value, the host's decoder, given the
\* bytes the sender's encoder produced, returns a message equal to the one
\* encoded.
C13_RoundTrip ==
  codec.done => (codec.back.ok /\ codec.back.msg = codec.msg)

\* C13, its case: a WindowCreated with a non-ASCII title, the largest id and
\* a negative position went through the codec.
C13_Witness ==
  /\ codec.done
  /\ codec.msg.type = "WindowCreated"
  /\ codec.msg.title = S_utf8
  /\ codec.msg.id = 2147483647
  /\ codec.msg.y = -2147483647
  /\ codec.back.ok

\* number of GetClipboard messages ClipboardProxy::run has handled
GetHandled == Cardinality({ i \in DOMAIN received : received[i].type = "GetClipboard" })

\* C15 (no clipboard push): everything the host wrote on the clipboard
\* connection is a ClipboardContent, there are at most as many of them as
\* GetClipboard messages handled, and a step of the watcher writes nothing.
C15_ContentOnlyOnGet ==
  /\ []( /\ Len(vm_out) <= GetHandled
         /\ \A i \in DOMAIN vm_out :
               LET r == deserialize(ClipboardMessageSchema, vm_out[i])
               IN  r.ok /\ r.msg.type = "ClipboardContent" )
  /\ [][ (watcher' # watcher \/ sys_clipboard' # sys_clipboard) => vm_out' = vm_out ]_vars

\* C15, its case: the watcher has stored a text the user copied on the host,
\* nothing was written for it, and the one GetClipboard handled got the one
\* reply, holding that text.
C15_Witness ==
  /\ host_clipboard = S_user
  /\ watcher.phase = "idle"
  /\ GetHandled = 1
  /\ Len(vm_out) = 1
  /\ deserialize(ClipboardMessageSchema, vm_out[1]).msg = ClipboardContent(S_user)

\* C16 (process watcher): a tick whose sends all succeed has sent exactly one
\* ApplicationStarted for each pid pgrep listed, in the order listed, whether
\* or not the pid was listed before; no tick sends anything else, an
\* ApplicationStopped in particular.
C16_StartedEveryTick ==
  /\ Len(app_sent) <= Len(pids)
  /\ \A i \in DOMAIN app_sent :
        app_sent[i] = [ type |-> "ApplicationStarted", app_name |-> S_detected, pid |-> pids[i] ]
  /\ (conn = "open" => Len(app_sent) = Len(pids))

\* C16, its case: of the two processes listed on the tick before, one is
\* listed again and reported again, the other is gone.
C16_Witness ==
  /\ conn = "open"
  /\ Len(prev_pids) = 2
  /\ Len(pids) >= 1
  /\ \E i \in DOMAIN prev_pids : \E j \in DOMAIN pids : prev_pids[i] = pids[j]
  /\ \E i \in DOMAIN prev_pids : \A j \in DOMAIN pids : prev_pids[i] # pids[j]
  /\ Len(app_sent) = Len(pids)

\* C17 (fallback path): a tick that got its window list from wmctrl diffs it
\* against the registry as the primary path does: the events sent and the
\* registry afterwards are those of the diff of the list.
C17_FallbackDiffs ==
  [][ scanned' = "wmctrl" =>
        \E key_order \in KeyOrders(windows) :
           LET d == DiffWindows(windows, snapshot', key_order, -1)
           IN  sent' = d.out /\ windows' = d.reg ]_vars

EventRank(m) ==
  CASE m.type = "WindowCreated" -> 1
    [] m.type = "WindowDestroyed" -> 2
    [] OTHER -> 3

\* C18 (order within a tick): among the events of one scan_windows tick every
\* WindowCreated comes before every WindowDestroyed, and every
\* WindowDestroyed before every WindowTitleChanged, WindowResized and
\* WindowMoved.
C18_EventOrder ==
  \A i, j \in DOMAIN sent : i < j => EventRank(sent[i]) <= EventRank(sent[j])

\* C18, its case: one tick created a window, destroyed one and reported a
\* change of a third.
C18_Witness ==
  /\ scanned = "xwininfo"
  /\ agent = "running"
  /\ \A r \in 1..3 : \E i \in DOMAIN sent : EventRank(sent[i]) = r

\* the events the diff of registry old and window list cur calls for
ExpectedEvents(old, cur) ==
  LET both == { i \in DOMAIN cur : cur[i].id \in DOMAIN old }
  IN  { WindowCreated(cur[i]) : i \in (DOMAIN cur) \ both }
        \cup { WindowDestroyed(id) : id \in (DOMAIN old) \ { cur[i].id : i \in DOMAIN cur } }
        \cup { WindowTitleChanged(cur[i].id, cur[i].title) :
                 i \in { k \in both : old[cur[k].id].title # cur[k].title } }
        \cup { WindowResized(cur[i].id, cur[i].width, cur[i].height) :
                 i \in { k \in both : << old[cur[k].id].width, old[cur[k].id].height >>
                                        # << cur[k].width, cur[k].height >> } }
        \cup { WindowMoved(cur[i].id, cur[i].x, cur[i].y) :
                 i \in { k \in both : << old[cur[k].id].x, old[cur[k].id].y >>
                                        # << cur[k].x, cur[k].y >> } }

\* C19 (exact events): a tick whose sends succeed emits one WindowCreated
\* per listed id the registry lacks, one WindowDestroyed per registry id not
\* listed, one event per differing field group of an id in both, and nothing
\* else; the ids not listed are gone from the registry afterwards.
C19_ExactEvents ==
  [][ (scanned' = "xwininfo" /\ agent' = "running") =>
        LET exp == ExpectedEvents(windows, snapshot')
            listed == { snapshot'[i].id : i \in DOMAIN snapshot' }
        IN  /\ { sent'[i] : i \in DOMAIN sent' } = exp
            /\ Len(sent') = Cardinality(exp)
            /\ (DOMAIN windows') \cap ((DOMAIN windows) \ listed) = {}
            /\ (snapshot' = << >> => windows' = EmptyMap) ]_vars

\* C19, its case: window 1 went from 800x600 to 1024x600 with title and
\* position as before, a second window did not change, and the tick sent the
\* one WindowResized.
C19_Witness ==
  /\ scanned = "xwininfo"
  /\ agent = "running"
  /\ Len(snapshot) = 2
  /\ sent = << WindowResized(1, 1024, 600) >>

\* C20 (registry tracks the display): after a tick that listed the windows,
\* the ids in the guest registry are the ids listed on that tick.
C20_RegistryTracksSnapshot ==
  (scanned \in {"xwininfo", "wmctrl"} /\ agent = "running") =>
     DOMAIN windows = { snapshot[i].id : i \in DOMAIN snapshot }

\* ------------------------------------------------------------------------
\* C22: after the peer closes the stream, the request loop of
\* ClipboardProxy::run eventually terminates: once the stream is closed and
\* the loop has nothing left to read, it eventually leaves its cycle of
\* reading and sleeping.
\* ------------------------------------------------------------------------
C22_LoopTerminates ==
  (conn = "closed" /\ vm_pending = <<>> /\ h_state = "reading")
     ~> (h_state \notin {"reading", "sleeping"})

\* ------------------------------------------------------------------------
\* C24: no failure of an external collaborator ends a loop: after a tick on
\* which neither window-listing tool could be used the guest agent is still
\* running.
\* ------------------------------------------------------------------------
C24_ToolFailureAbsorbed == (scanned = "none") => (agent = "running")

\* ------------------------------------------------------------------------
\* C29: under any sequence of lifecycle messages the host registry holds at
\* most one entry per id, and its ids are exactly those whose most recent
\* lifecycle message was WindowCreated: a WindowCreated for an id that is
\* present replaces the entry, a WindowDestroyed for an absent id changes
\* nothing.
\* ------------------------------------------------------------------------
\* the lifecycle messages for id among the handled messages, in order
LifecycleOf(id) ==
  SelectSeq(received, LAMBDA m : m.type \in {"WindowCreated", "WindowDestroyed"} /\ m.id = id)

\* the ids whose most recent lifecycle message was WindowCreated
LiveIds ==
  { id \in { received[i].id : i \in { j \in DOMAIN received : "id" \in DOMAIN received[j] } } :
      /\ LifecycleOf(id) # <<>>
      /\ LifecycleOf(id)[Len(LifecycleOf(id))].type = "WindowCreated" }

C29_RegistryIsLiveSet ==
  /\ DOMAIN proxy_windows = LiveIds
  /\ \A id \in DOMAIN proxy_windows : proxy_windows[id].vm_window_id = id
  /\ (received # <<>> /\ received[Len(received)].type = "WindowCreated") =>
        LET m == received[Len(received)]
        IN  proxy_windows[m.id] = ProxiedWindow(m.id, m.title, m.width, m.height)

\* ------------------------------------------------------------------------
\* C27: in the guest's output stream, for every window id, WindowCreated and
\* WindowDestroyed alternate strictly, starting with WindowCreated, and every
\* WindowMoved, WindowResized and WindowTitleChanged of the id lies after a
\* WindowCreated and before the next WindowDestroyed, also for snapshots that
\* list an id more than once.  The stream is the concatenation of the ticks'
\* messages; the ids created and not yet destroyed are those of the registry
\* when a tick begins (none before the first tick), each tick's messages are
\* well-formed from there and lead to the ids of the registry it leaves.
\* ------------------------------------------------------------------------
\* the ids created and not destroyed after events[i..], starting from alive;
\* ok is FALSE if an event does not fit the ids alive when it is sent
RECURSIVE LifecycleWalk(_, _, _)
LifecycleWalk(alive, events, i) ==
  IF i > Len(events) THEN [ ok |-> TRUE, alive |-> alive ]
  ELSE LET m == events[i]
       IN  CASE m.type = "WindowCreated" ->
                  IF m.id \in alive THEN [ ok |-> FALSE, alive |-> alive ]
                  ELSE LifecycleWalk(alive \cup {m.id}, events, i + 1)
             [] m.type = "WindowDestroyed" ->
                  IF m.id \notin alive THEN [ ok |-> FALSE, alive |-> alive ]
                  ELSE LifecycleWalk(alive \ {m.id}, events, i + 1)
             [] m.type \in {"WindowMoved", "WindowResized", "WindowTitleChanged"} ->
                  IF m.id \notin alive THEN [ ok |-> FALSE, alive |-> alive ]
                  ELSE LifecycleWalk(alive, events, i + 1)
             [] OTHER -> LifecycleWalk(alive, events, i + 1)

C27_LifecycleWellFormed ==
  /\ (scanned = "never" => windows = EmptyMap)
  /\ [][ scanned' = "xwininfo" =>
           LET r == LifecycleWalk(DOMAIN windows, sent', 1)
           IN  r.ok /\ r.alive = DOMAIN windows' ]_vars

\* C27, its case: a tick whose snapshot listed window 1 twice, with two
\* titles, announced the window once and then its new title.
C27_Witness ==
  /\ snapshot = << WindowInfo(1, S_Firefox, BaseGeometry), WindowInfo(1, S_Chromium, BaseGeometry) >>
  /\ sent = << WindowCreated(WindowInfo(1, S_Firefox, BaseGeometry)),
               WindowTitleChanged(1, S_Chromium) >>
  /\ DOMAIN windows = {1}

\* ------------------------------------------------------------------------
\* C28: a failed send leaves the guest registry unchanged for that window: a
\* window whose WindowCreated could not be written is not inserted, one
\* whose WindowDestroyed could not be written is not removed; after every
\* tick the registry holds the ids it held before, plus those whose
\* WindowCreated the tick wrote, minus those whose WindowDestroyed it wrote.
\* ------------------------------------------------------------------------
\* the ids of the messages of type ty among events
IdsOf(events, ty) == { events[i].id : i \in { j \in DOMAIN events : events[j].type = ty } }

C28_FailedSendKeepsRegistry ==
  [][ scanned' = "xwininfo" =>
        /\ DOMAIN windows' =
             ((DOMAIN windows) \cup IdsOf(sent', "WindowCreated")) \ IdsOf(sent', "WindowDestroyed")
        /\ IdsOf(sent', "WindowCreated") \cap IdsOf(sent', "WindowDestroyed") = {} ]_vars

\* C28, its case: the snapshot listed windows 1 and 2, both new; the
\* WindowCreated of window 1 was written, that of window 2 failed, and the
\* registry holds window 1 only.
C28_Witness ==
  /\ agent = "exited"
  /\ send_failed
  /\ Len(snapshot) = 2 /\ snapshot[1].id = 1 /\ snapshot[2].id = 2
  /\ Len(sent) = 1 /\ sent[1].type = "WindowCreated" /\ sent[1].id = 1
  /\ DOMAIN windows = {1}

\* ------------------------------------------------------------------------
\* C21: if the guest's window set stops changing and every frame the guest
\* sent is delivered in order, the host registry eventually holds exactly the
\* ids of the guest registry, each with the guest's title, width and height.
\* The host registry changes only when the handler handles a frame, so what
\* it holds once every frame the guest sent has been handled is what it holds
\* from then on: whenever the handler has handled all frames sent so far, the
\* host registry agrees with the guest registry.
\* ------------------------------------------------------------------------
HostMatchesGuest ==
  /\ DOMAIN proxy_windows = DOMAIN windows
  /\ \A id \in DOMAIN windows :
       /\ proxy_windows[id].title = windows[id].title
       /\ proxy_windows[id].width = windows[id].width
       /\ proxy_windows[id].height = windows[id].height

C21_EventuallyConsistent ==
  (h_state = "reading" /\ rpos = Len(wire) /\ dropped = 0) => HostMatchesGuest

\* ------------------------------------------------------------------------
\* C26: the shared clipboard value and the window registry are guarded by
\* two distinct locks, and no thread holds one of them while it holds or
\* acquires the other, so a registry update never waits on a clipboard
\* operation: a thread that finds the registry lock taken finds it held by a
\* thread that holds no clipboard lock and can go on.
\* ------------------------------------------------------------------------
Holds(t, l) == lock_owner[l] = t
Wants(t, l) == At(t).op = "lock" /\ At(t).lock = l

\* thread t has a step it can take
CanProceed(t) ==
  \/ At(t).op = "unlock"
  \/ At(t).op = "work" /\ At(t).next # {}
  \/ At(t).op = "lock" /\ lock_owner[At(t).lock] = "none"

C26_DistinctLocks ==
  /\ RegistryLock # ClipboardLock
  /\ \A t \in LockThreads :
       /\ ~(Holds(t, RegistryLock) /\ (Holds(t, ClipboardLock) \/ Wants(t, ClipboardLock)))
       /\ ~(Holds(t, ClipboardLock) /\ (Holds(t, RegistryLock) \/ Wants(t, RegistryLock)))
       /\ (Wants(t, RegistryLock) /\ lock_owner[RegistryLock] # "none") =>
             /\ ~Holds(lock_owner[RegistryLock], ClipboardLock)
             /\ CanProceed(lock_owner[RegistryLock])

\* C26, its case: handle_vm_message holds the registry lock while the
\* watcher holds the clipboard lock and the request loop waits for it.
C26_Witness ==
  /\ Holds("vm_messages", RegistryLock)
  /\ Holds("watcher", ClipboardLock)
  /\ Wants("clip_run", ClipboardLock)

\* ------------------------------------------------------------------------
\* C30: ClipboardProxy never deadlocks: the request loop acquires the
\* connection lock and then the clipboard-value lock, the watcher acquires
\* only the clipboard-value lock, and whenever one of them waits for a lock
\* the thread that holds it can still proceed.
\* ------------------------------------------------------------------------
ClipThreads == { "clip_run", "watcher" }

C30_NoDeadlock ==
  /\ Holds("clip_run", ClipboardLock) => Holds("clip_run", ClipConnLock)
  /\ \A l \in Locks \ {ClipboardLock} : ~Holds("watcher", l)
  /\ \A t \in ClipThreads :
       (At(t).op = "lock" /\ lock_owner[At(t).lock] # "none") =>
          CanProceed(lock_owner[At(t).lock])

\* C30, its case: the request loop holds the connection lock and waits for
\* the clipboard-value lock, which the watcher holds.
C30_Witness ==
  /\ Holds("clip_run", ClipConnLock)
  /\ Wants("clip_run", ClipboardLock)
  /\ Holds("watcher", ClipboardLock)
  /\ pc["watcher"] = "w_store"

\* ------------------------------------------------------------------------
\* C23: the host receives the window events of a connection in the order in
\* which the diff engine generated them, also while process-watcher messages
\* are sent on the same transport: the window events the host handler has
\* handled are, in order, the first of those the window thread sent.
\* ------------------------------------------------------------------------
WindowEventTypes ==
  { "WindowCreated", "WindowDestroyed", "WindowMoved", "WindowResized",
    "WindowTitleChanged", "WindowFocusChanged" }

WindowEvents(msgs) == SelectSeq(msgs, LAMBDA m : m.type \in WindowEventTypes)

IsPrefix(a, b) == Len(a) <= Len(b) /\ a = SubSeq(b, 1, Len(a))

C23_WindowEventOrder == IsPrefix(WindowEvents(received), generated)

\* the records one line yields when the reader is given that line alone
\* (none when the reader cannot parse it)
LineRecords(tool, line) ==
  IF tool = "xwininfo" THEN parse_xwininfo_output(line \o << 10 >>)
  ELSE LET r == parse_wmctrl_output(line \o << 10 >>)
       IN  IF r.panic THEN << >> ELSE r.windows

RECURSIVE RecordsOfLines(_, _, _)
RecordsOfLines(tool, lines, i) ==
  IF i > Len(lines) THEN << >>
  ELSE LineRecords(tool, lines[i]) \o RecordsOfLines(tool, lines, i + 1)

\* C25: a line of listing output that cannot be parsed, in the tree format
\* of xwininfo or in the columnar format of wmctrl, is skipped: the reader
\* returns the records of all the lines that can be parsed, in their order,
\* and the tick neither fails nor panics because of one line.
C25_BadLineSkipped ==
  (scanned \in {"xwininfo", "wmctrl"}) =>
    /\ agent # "panicked"
    /\ snapshot = RecordsOfLines(scanned, Lines(tool_output, 1), 1)

====
